---- MODULE Spec2Model ----
(***************************************************************************)
(* Book-review application: the relational store (users, books, reviews,   *)
(* review_likes, user_favorites, review_comments), its counter triggers,   *)
(* and the route handlers that read and write it.  Every handler is split  *)
(* at its awaits: one action per database round trip, so that two requests *)
(* in flight interleave exactly where the event loop lets them.            *)
(***************************************************************************)
EXTENDS Integers, Sequences, FiniteSets, Bags, TLC

\* ---------------------------------------------------------------- bounds
NumSeedReviews == 1
MaxReviews == 2
MaxComments == 2
MaxReplies == 1
MaxViews == 2
MaxMinutes == 45

\* the default administrator (id 1) and two registered users
Users == {1, 2, 3}
Slots == {"s1", "s2"}
BookIds == {1}
\* ids a request may name: every id the store can hold plus one it never holds
ReviewParams == 1..(MaxReviews + 1)
CommentParams == 1..(MaxComments + 1)
ThreadParams == 1..(MaxComments + MaxReplies + 1)
BookParams == BookIds \cup {2}

Anonymous == 0
Null == -1
Undefined == "undefined"

VARIABLES
    users,            \* id -> row of table users
    books,            \* id -> row of table books (existing rows only)
    reviews,          \* id -> row of table reviews (existing rows only)
    nextReviewId,     \* AUTO_INCREMENT of reviews
    review_likes,     \* bag of <<user_id, review_id>> rows
    user_favorites,   \* bag of <<user_id, review_id>> rows
    review_comments,  \* id -> row of table review_comments
    nextCommentId,    \* AUTO_INCREMENT of review_comments
    now,              \* wall clock, in hours
    minutes,          \* wall clock, minutes past the hour
    system_logs,      \* rows of table system_logs, in insertion order
    requestCounts,    \* rateLimit's Map: client IP -> times of admitted requests
    pool,             \* the connection pool of the database module
    nextBookId,       \* AUTO_INCREMENT of books
    admitted,         \* history: client IP -> times rateLimit called next()
    req               \* slot -> the request being served in it

vars == <<users, books, reviews, nextReviewId, review_likes, user_favorites,
          review_comments, nextCommentId, now, minutes, system_logs,
          requestCounts, pool, nextBookId, admitted, req>>

\* ------------------------------------------------------------ the schema
\* users.role of the default administrator row and of registered users
RoleOf(u) == IF u = 1 THEN "admin" ELSE "user"

AllPublic == [avatar |-> TRUE, signature |-> TRUE, stats |-> TRUE, history |-> TRUE]

\* users.privacy_settings: SQL NULL, or the JSON text of a map
NullSettings == [kind |-> "null", map |-> AllPublic]

PrivacyMaps == [avatar : BOOLEAN, signature : BOOLEAN, stats : BOOLEAN,
                history : BOOLEAN]

StoredSettings == {NullSettings} \cup {[kind |-> "json", map |-> m] : m \in PrivacyMaps}

\* users.email and users.username of the rows the schema script and the
\* seed insert
SeedEmails == <<"admin@x.io", "u2@x.io", "u3@x.io">>
SeedNames == <<"admin", "user2", "user3">>

UserRow(u) ==
    [email |-> SeedEmails[u], username |-> SeedNames[u], bio |-> "",
     role |-> RoleOf(u), status |-> "active",
     total_reviews |-> 0, total_likes_received |-> 0,
     avatar_url |-> "avatar", signature |-> "signature",
     privacy_settings |-> NullSettings]

BookRow ==
    [title |-> "b1", author |-> "a1", total_reviews |-> 0, average_rating |-> 0]

ReviewRow(u, b, title, content, rating) ==
    [user_id |-> u, book_id |-> b, title |-> title, content |-> content,
     rating |-> rating, status |-> "approved", views |-> 0, likes_count |-> 0,
     comments_count |-> 0]

\* a join table declared without its unique key
NoUniqueKey(table, u, r) == FALSE

\* UNIQUE KEY unique_like / unique_favorite (user_id, review_id)
UniqueViolation(table, u, r) == CopiesIn(<<u, r>>, table) > 0

\* FOREIGN KEY (review_id) REFERENCES reviews(id), (user_id) REFERENCES users(id)
ForeignKeysHold(u, r) == u \in DOMAIN users /\ r \in DOMAIN reviews

RowsOf(table, r) == {p \in BagToSet(table) : p[2] = r}

RECURSIVE SumCopies(_, _)
SumCopies(table, S) ==
    IF S = {} THEN 0
    ELSE LET p == CHOOSE x \in S : TRUE
         IN CopiesIn(p, table) + SumCopies(table, S \ {p})

\* SELECT COUNT(*) FROM <table> WHERE review_id = r
CountRows(table, r) == SumCopies(table, RowsOf(table, r))

\* -------------------------------------------------------------- triggers
\* AFTER INSERT ON review_likes
update_review_likes_count(t, r) ==
    LET rv == [t.reviews EXCEPT ![r].likes_count = @ + 1]
        o  == t.reviews[r].user_id
    IN [reviews |-> rv,
        users |-> [t.users EXCEPT ![o].total_likes_received = @ + 1]]

\* a delete trigger that leaves the counters alone
LikesCountKept(t, r, n) == t

\* AFTER DELETE ON review_likes, once for each deleted row
update_review_likes_count_delete(t, r, n) ==
    IF r \notin DOMAIN t.reviews THEN t
    ELSE LET rv == [t.reviews EXCEPT ![r].likes_count = @ - n]
             o  == t.reviews[r].user_id
         IN [reviews |-> rv,
             users |-> [t.users EXCEPT ![o].total_likes_received = @ - n]]

\* AVG(rating) stored in a DECIMAL(3,2) column, in hundredths: sum / n rounded
\* half up
Decimal32(sum, n) == (200 * sum + n) \div (2 * n)

RECURSIVE SumRatings(_, _)
SumRatings(rv, S) ==
    IF S = {} THEN 0
    ELSE LET i == CHOOSE x \in S : TRUE
         IN rv[i].rating + SumRatings(rv, S \ {i})

\* the rows the triggers average over
AveragedRows(rv, b) ==
    {i \in DOMAIN rv : rv[i].book_id = b /\ rv[i].status = "approved"}

\* SELECT AVG(rating) FROM reviews WHERE book_id = b AND status = 'approved'
AvgRating(rv, b) ==
    LET S == AveragedRows(rv, b)
    IN IF S = {} THEN Null ELSE Decimal32(SumRatings(rv, S), Cardinality(S))

\* AFTER INSERT ON reviews; t.reviews already holds the new row
update_book_stats_insert(t, id) ==
    LET b == t.reviews[id].book_id
        u == t.reviews[id].user_id
    IN [reviews |-> t.reviews,
        books |-> [t.books EXCEPT ![b].total_reviews = @ + 1,
                                  ![b].average_rating = AvgRating(t.reviews, b)],
        users |-> [t.users EXCEPT ![u].total_reviews = @ + 1]]

\* INSERT INTO reviews (...) VALUES (?, ?, ?, ?, ?, 'approved') with its trigger
InsertReview(t, id, u, b, title, content, rating) ==
    update_book_stats_insert(
        [reviews |-> [i \in DOMAIN t.reviews \cup {id} |->
                        IF i = id THEN ReviewRow(u, b, title, content, rating)
                        ELSE t.reviews[i]],
         books |-> t.books, users |-> t.users], id)

\* ------------------------------------------------------------- requests
NoBody ==
    [book_id |-> 0, title |-> Undefined, content |-> Undefined, rating |-> Null,
     status |-> Undefined, email |-> Undefined, username |-> Undefined,
     password |-> Undefined, bio |-> Undefined, author |-> Undefined,
     signature |-> Undefined, privacy_settings |-> Undefined]
NoLoc ==
    [owner |-> 0, review_id |-> 0, count |-> 0, shouldCount |-> FALSE,
     insertId |-> 0]
JsNull == "null"
NoProfile ==
    [avatar_url |-> JsNull, signature |-> JsNull, stats |-> JsNull,
     history |-> JsNull, privacy_settings |-> JsNull, is_own_profile |-> FALSE]
NoData ==
    [likes_count |-> Null, reviews |-> {}, comments |-> {}, profile |-> NoProfile,
     replies_count |-> Null, deleted_reviews |-> Null, views |-> Null,
     counted |-> FALSE]

Idle ==
    [op |-> "none", pc |-> "idle", actor |-> Anonymous, role |-> "none",
     id |-> 0, ip |-> "none", body |-> NoBody, loc |-> NoLoc, status |-> 0,
     code |-> "none", data |-> NoData]

\* res.status(n).json(...): the handler is over
Respond(s, n, code) ==
    req' = [req EXCEPT ![s].pc = "done", ![s].status = n, ![s].code = code]

RespondWith(s, n, code, data) ==
    req' = [req EXCEPT ![s].pc = "done", ![s].status = n, ![s].code = code,
                       ![s].data = data]

Goto(s, pc) == req' = [req EXCEPT ![s].pc = pc]

At(s, op, pc) == req[s].op = op /\ req[s].pc = pc

\* authenticateToken: the outcome for a bearer token naming user `token`
\* (Anonymous: no token). 0 means next() is called.
authenticateToken(token) ==
    IF token = Anonymous THEN 401
    ELSE IF token \notin DOMAIN users THEN 403
    ELSE IF users[token].status # "active" THEN 403
    ELSE 0

\* A request arrives on a route guarded by authenticateToken.
Arrive(s, op, token, id, body) ==
    /\ req[s].pc = "idle"
    /\ LET a == authenticateToken(token)
       IN req' = [req EXCEPT ![s] =
                    IF a = 0
                    THEN [Idle EXCEPT !.op = op, !.pc = "start", !.actor = token,
                                      !.role = users[token].role, !.id = id,
                                      !.body = body]
                    ELSE [Idle EXCEPT !.op = op, !.pc = "done", !.id = id,
                                      !.body = body, !.status = a,
                                      !.code = "NO_AUTH"]]

\* The response has been sent; the slot serves the next request.
Finish(s) ==
    /\ req[s].pc = "done"
    /\ req' = [req EXCEPT ![s] = Idle]
    /\ UNCHANGED <<users, books, reviews, nextReviewId, review_likes,
                   user_favorites, review_comments, nextCommentId, now,
                   minutes, system_logs, requestCounts, pool, nextBookId,
                   admitted>>

\* ------------------------------------------ POST /api/likes/reviews/:id
LikeArrive(s, token, r) ==
    /\ Arrive(s, "like", token, r, NoBody)
    /\ UNCHANGED <<users, books, reviews, nextReviewId, review_likes,
                   user_favorites, review_comments, nextCommentId, now,
                   minutes, system_logs, requestCounts, pool, nextBookId,
                   admitted>>

\* SELECT id, user_id FROM reviews WHERE id = ? AND status = "approved"
LikeFindReview(s) ==
    /\ At(s, "like", "start")
    /\ LET r == req[s].id
       IN IF r \in DOMAIN reviews /\ reviews[r].status = "approved"
          THEN req' = [req EXCEPT ![s].pc = "check",
                                  ![s].loc.owner = reviews[r].user_id]
          ELSE Respond(s, 404, "NOT_FOUND")
    /\ UNCHANGED <<users, books, reviews, nextReviewId, review_likes,
                   user_favorites, review_comments, nextCommentId, now,
                   minutes, system_logs, requestCounts, pool, nextBookId,
                   admitted>>

\* a handler without the self-like test
SelfLikeUntested(owner, actor) == FALSE

\* the self-like test of the handler
IsSelfLike(owner, actor) == owner = actor

\* SELECT id FROM review_likes WHERE user_id = ? AND review_id = ?, then the
\* self-like test
LikeCheckExisting(s) ==
    /\ At(s, "like", "check")
    /\ IF CopiesIn(<<req[s].actor, req[s].id>>, review_likes) > 0
       THEN Respond(s, 409, "ALREADY_LIKED")
       ELSE IF IsSelfLike(req[s].loc.owner, req[s].actor)
       THEN Respond(s, 400, "SELF_LIKE_FORBIDDEN")
       ELSE Goto(s, "insert")
    /\ UNCHANGED <<users, books, reviews, nextReviewId, review_likes,
                   user_favorites, review_comments, nextCommentId, now,
                   minutes, system_logs, requestCounts, pool, nextBookId,
                   admitted>>

\* does INSERT INTO review_likes (user_id, review_id) succeed?
LikeInsertAccepted(u, r) ==
    ForeignKeysHold(u, r) /\ ~UniqueViolation(review_likes, u, r)

\* INSERT INTO review_likes (user_id, review_id) VALUES (?, ?)
LikeInsert(s) ==
    /\ At(s, "like", "insert")
    /\ LET u == req[s].actor
           r == req[s].id
       IN IF LikeInsertAccepted(u, r)
          THEN LET t == update_review_likes_count(
                            [reviews |-> reviews, users |-> users], r)
               IN /\ review_likes' = review_likes (+) SetToBag({<<u, r>>})
                  /\ reviews' = t.reviews
                  /\ users' = t.users
                  /\ Goto(s, "reread")
          ELSE /\ Respond(s, 500, "INTERNAL")
               /\ UNCHANGED <<review_likes, reviews, users>>
    /\ UNCHANGED <<books, nextReviewId, user_favorites, review_comments,
                   nextCommentId, now, minutes, system_logs, requestCounts,
                   pool, nextBookId, admitted>>

\* SELECT likes_count FROM reviews WHERE id = ?
LikeReread(s) ==
    /\ At(s, "like", "reread")
    /\ LET r == req[s].id
       IN IF r \in DOMAIN reviews
          THEN RespondWith(s, 201, "OK",
                   [NoData EXCEPT !.likes_count = reviews[r].likes_count])
          ELSE Respond(s, 500, "INTERNAL")
    /\ UNCHANGED <<users, books, reviews, nextReviewId, review_likes,
                   user_favorites, review_comments, nextCommentId, now,
                   minutes, system_logs, requestCounts, pool, nextBookId,
                   admitted>>

\* ---------------------------------------- DELETE /api/likes/reviews/:id
UnlikeArrive(s, token, r) ==
    /\ Arrive(s, "unlike", token, r, NoBody)
    /\ UNCHANGED <<users, books, reviews, nextReviewId, review_likes,
                   user_favorites, review_comments, nextCommentId, now,
                   minutes, system_logs, requestCounts, pool, nextBookId,
                   admitted>>

\* the handler without its existingLikes test
UnlikeUnchecked(s) ==
    /\ At(s, "unlike", "start")
    /\ Goto(s, "delete")
    /\ UNCHANGED <<users, books, reviews, nextReviewId, review_likes,
                   user_favorites, review_comments, nextCommentId, now,
                   minutes, system_logs, requestCounts, pool, nextBookId,
                   admitted>>

\* SELECT id FROM review_likes WHERE user_id = ? AND review_id = ?
UnlikeCheckExisting(s) ==
    /\ At(s, "unlike", "start")
    /\ IF CopiesIn(<<req[s].actor, req[s].id>>, review_likes) = 0
       THEN Respond(s, 404, "NOT_LIKED")
       ELSE Goto(s, "delete")
    /\ UNCHANGED <<users, books, reviews, nextReviewId, review_likes,
                   user_favorites, review_comments, nextCommentId, now,
                   minutes, system_logs, requestCounts, pool, nextBookId,
                   admitted>>

\* the table without every row of the pair
DeleteRows(table, u, r) ==
    IF CopiesIn(<<u, r>>, table) = 0 THEN table
    ELSE table (-) [p \in {<<u, r>>} |-> CopiesIn(<<u, r>>, table)]

\* DELETE FROM review_likes WHERE user_id = ? AND review_id = ?
UnlikeDelete(s) ==
    /\ At(s, "unlike", "delete")
    /\ LET u == req[s].actor
           r == req[s].id
           n == CopiesIn(<<u, r>>, review_likes)
           t == update_review_likes_count_delete(
                    [reviews |-> reviews, users |-> users], r, n)
       IN /\ review_likes' = DeleteRows(review_likes, u, r)
          /\ reviews' = t.reviews
          /\ users' = t.users
    /\ Goto(s, "reread")
    /\ UNCHANGED <<books, nextReviewId, user_favorites, review_comments,
                   nextCommentId, now, minutes, system_logs, requestCounts,
                   pool, nextBookId, admitted>>

\* SELECT likes_count FROM reviews WHERE id = ?
UnlikeReread(s) ==
    /\ At(s, "unlike", "reread")
    /\ LET r == req[s].id
       IN RespondWith(s, 200, "OK",
              [NoData EXCEPT !.likes_count =
                  IF r \in DOMAIN reviews THEN reviews[r].likes_count ELSE 0])
    /\ UNCHANGED <<users, books, reviews, nextReviewId, review_likes,
                   user_favorites, review_comments, nextCommentId, now,
                   minutes, system_logs, requestCounts, pool, nextBookId,
                   admitted>>

\* -------------------------------------- POST /api/favorites/reviews/:id
FavoriteArrive(s, token, r) ==
    /\ Arrive(s, "favorite", token, r, NoBody)
    /\ UNCHANGED <<users, books, reviews, nextReviewId, review_likes,
                   user_favorites, review_comments, nextCommentId, now,
                   minutes, system_logs, requestCounts, pool, nextBookId,
                   admitted>>

\* SELECT id, user_id FROM reviews WHERE id = ? AND status = "approved"
FavoriteFindReview(s) ==
    /\ At(s, "favorite", "start")
    /\ LET r == req[s].id
       IN IF r \in DOMAIN reviews /\ reviews[r].status = "approved"
          THEN req' = [req EXCEPT ![s].pc = "check",
                                  ![s].loc.owner = reviews[r].user_id]
          ELSE Respond(s, 404, "NOT_FOUND")
    /\ UNCHANGED <<users, books, reviews, nextReviewId, review_likes,
                   user_favorites, review_comments, nextCommentId, now,
                   minutes, system_logs, requestCounts, pool, nextBookId,
                   admitted>>

\* SELECT id FROM user_favorites WHERE user_id = ? AND review_id = ?
\* (no self-favorite test follows)
FavoriteCheckExisting(s) ==
    /\ At(s, "favorite", "check")
    /\ IF CopiesIn(<<req[s].actor, req[s].id>>, user_favorites) > 0
       THEN Respond(s, 409, "ALREADY_FAVORITED")
       ELSE Goto(s, "insert")
    /\ UNCHANGED <<users, books, reviews, nextReviewId, review_likes,
                   user_favorites, review_comments, nextCommentId, now,
                   minutes, system_logs, requestCounts, pool, nextBookId,
                   admitted>>

\* does INSERT INTO user_favorites (user_id, review_id) succeed?
FavoriteInsertAccepted(u, r) ==
    ForeignKeysHold(u, r) /\ ~UniqueViolation(user_favorites, u, r)

\* INSERT INTO user_favorites (user_id, review_id) VALUES (?, ?)
FavoriteInsert(s) ==
    /\ At(s, "favorite", "insert")
    /\ LET u == req[s].actor
           r == req[s].id
       IN IF FavoriteInsertAccepted(u, r)
          THEN /\ user_favorites' = user_favorites (+) SetToBag({<<u, r>>})
               /\ Goto(s, "reread")
          ELSE /\ Respond(s, 500, "INTERNAL")
               /\ UNCHANGED user_favorites
    /\ UNCHANGED <<users, books, reviews, nextReviewId, review_likes,
                   review_comments, nextCommentId, now, minutes, system_logs,
                   requestCounts, pool, nextBookId, admitted>>

\* SELECT title, content FROM reviews WHERE id = ?
FavoriteReread(s) ==
    /\ At(s, "favorite", "reread")
    /\ IF req[s].id \in DOMAIN reviews
       THEN Respond(s, 201, "OK")
       ELSE Respond(s, 500, "INTERNAL")
    /\ UNCHANGED <<users, books, reviews, nextReviewId, review_likes,
                   user_favorites, review_comments, nextCommentId, now,
                   minutes, system_logs, requestCounts, pool, nextBookId,
                   admitted>>

\* ------------------------------------ DELETE /api/favorites/reviews/:id
UnfavoriteArrive(s, token, r) ==
    /\ Arrive(s, "unfavorite", token, r, NoBody)
    /\ UNCHANGED <<users, books, reviews, nextReviewId, review_likes,
                   user_favorites, review_comments, nextCommentId, now,
                   minutes, system_logs, requestCounts, pool, nextBookId,
                   admitted>>

\* SELECT id FROM user_favorites WHERE user_id = ? AND review_id = ?
UnfavoriteCheckExisting(s) ==
    /\ At(s, "unfavorite", "start")
    /\ IF CopiesIn(<<req[s].actor, req[s].id>>, user_favorites) = 0
       THEN Respond(s, 404, "NOT_FAVORITED")
       ELSE Goto(s, "delete")
    /\ UNCHANGED <<users, books, reviews, nextReviewId, review_likes,
                   user_favorites, review_comments, nextCommentId, now,
                   minutes, system_logs, requestCounts, pool, nextBookId,
                   admitted>>

\* DELETE FROM user_favorites WHERE user_id = ? AND review_id = ?
UnfavoriteDelete(s) ==
    /\ At(s, "unfavorite", "delete")
    /\ user_favorites' = DeleteRows(user_favorites, req[s].actor, req[s].id)
    /\ Respond(s, 200, "OK")
    /\ UNCHANGED <<users, books, reviews, nextReviewId, review_likes,
                   review_comments, nextCommentId, now, minutes, system_logs,
                   requestCounts, pool, nextBookId, admitted>>

\* ---------------------------------------------------- POST /api/reviews
\* validate.reviews.create, then the handler's own tests of the body
ValidCreateBody(body) ==
    /\ body.book_id # 0
    /\ body.title # Undefined
    /\ body.content # Undefined
    /\ body.rating >= 1 /\ body.rating <= 5

\* requests that may still insert a review row
CreatesInFlight ==
    Cardinality({s \in Slots : req[s].op = "create"
                               /\ req[s].pc \in {"start", "check", "insert"}})

CreateArrive(s, token, body) ==
    /\ nextReviewId + CreatesInFlight <= MaxReviews
    /\ req[s].pc = "idle"
    /\ IF authenticateToken(token) = 0 /\ ~ValidCreateBody(body)
       THEN req' = [req EXCEPT ![s] =
                      [Idle EXCEPT !.op = "create", !.pc = "done",
                                   !.actor = token, !.role = users[token].role,
                                   !.body = body, !.status = 400,
                                   !.code = "VALIDATION"]]
       ELSE Arrive(s, "create", token, 0, body)
    /\ UNCHANGED <<users, books, reviews, nextReviewId, review_likes,
                   user_favorites, review_comments, nextCommentId, now,
                   minutes, system_logs, requestCounts, pool, nextBookId,
                   admitted>>

\* SELECT id FROM books WHERE id = ?
CreateFindBook(s) ==
    /\ At(s, "create", "start")
    /\ IF req[s].body.book_id \in DOMAIN books
       THEN Goto(s, "check")
       ELSE Respond(s, 404, "BOOK_NOT_FOUND")
    /\ UNCHANGED <<users, books, reviews, nextReviewId, review_likes,
                   user_favorites, review_comments, nextCommentId, now,
                   minutes, system_logs, requestCounts, pool, nextBookId,
                   admitted>>

\* the same query with a filter on the status
VisibleReviews(u, b) ==
    {i \in DOMAIN reviews : /\ reviews[i].user_id = u /\ reviews[i].book_id = b
                            /\ reviews[i].status # "hidden"}

\* SELECT id FROM reviews WHERE user_id = ? AND book_id = ?
ExistingReviews(u, b) ==
    {i \in DOMAIN reviews : reviews[i].user_id = u /\ reviews[i].book_id = b}

CreateCheckExisting(s) ==
    /\ At(s, "create", "check")
    /\ IF ExistingReviews(req[s].actor, req[s].body.book_id) # {}
       THEN Respond(s, 409, "ALREADY_REVIEWED")
       ELSE Goto(s, "insert")
    /\ UNCHANGED <<users, books, reviews, nextReviewId, review_likes,
                   user_favorites, review_comments, nextCommentId, now,
                   minutes, system_logs, requestCounts, pool, nextBookId,
                   admitted>>

\* does INSERT INTO reviews succeed? Table reviews declares the two foreign
\* keys and no unique key over (user_id, book_id).
ReviewInsertAccepted(u, b) == u \in DOMAIN users /\ b \in DOMAIN books

\* INSERT INTO reviews (user_id, book_id, title, content, rating, status)
CreateInsert(s) ==
    /\ At(s, "create", "insert")
    /\ LET u == req[s].actor
           body == req[s].body
       IN IF ReviewInsertAccepted(u, body.book_id)
          THEN LET t == InsertReview(
                            [reviews |-> reviews, books |-> books, users |-> users],
                            nextReviewId, u, body.book_id, body.title,
                            body.content, body.rating)
               IN /\ reviews' = t.reviews
                  /\ books' = t.books
                  /\ users' = t.users
                  /\ nextReviewId' = nextReviewId + 1
                  /\ req' = [req EXCEPT ![s].pc = "reread",
                                        ![s].id = nextReviewId]
          ELSE /\ Respond(s, 500, "INTERNAL")
               /\ UNCHANGED <<reviews, books, users, nextReviewId>>
    /\ UNCHANGED <<review_likes, user_favorites, review_comments,
                   nextCommentId, now, minutes, system_logs, requestCounts,
                   pool, nextBookId, admitted>>

\* SELECT r.*, ... FROM reviews r JOIN books b ... WHERE r.id = ?
CreateReread(s) ==
    /\ At(s, "create", "reread")
    /\ Respond(s, 201, "OK")
    /\ UNCHANGED <<users, books, reviews, nextReviewId, review_likes,
                   user_favorites, review_comments, nextCommentId, now,
                   minutes, system_logs, requestCounts, pool, nextBookId,
                   admitted>>

\* ------------------------------------------------- PUT /api/reviews/:id
\* a permission test that lets every authenticated user through
AnyoneMayMutate(owner, actor, role) == TRUE

\* the permission test shared by PUT and DELETE /api/reviews/:id
MayMutateReview(owner, actor, role) == owner = actor \/ role = "admin"

UpdateArrive(s, token, r, body) ==
    /\ Arrive(s, "update", token, r, body)
    /\ UNCHANGED <<users, books, reviews, nextReviewId, review_likes,
                   user_favorites, review_comments, nextCommentId, now,
                   minutes, system_logs, requestCounts, pool, nextBookId,
                   admitted>>

\* SELECT * FROM reviews WHERE id = ?, the permission test and the body tests
UpdateFindReview(s) ==
    /\ At(s, "update", "start")
    /\ LET r == req[s].id
           body == req[s].body
       IN IF r \notin DOMAIN reviews
          THEN Respond(s, 404, "NOT_FOUND")
          ELSE IF ~MayMutateReview(reviews[r].user_id, req[s].actor, req[s].role)
          THEN Respond(s, 403, "ACCESS_DENIED")
          ELSE IF body.rating # Null /\ (body.rating < 1 \/ body.rating > 5)
          THEN Respond(s, 400, "VALIDATION")
          ELSE IF body.title = Undefined /\ body.content = Undefined
                  /\ body.rating = Null
          THEN Respond(s, 400, "NO_FIELDS")
          ELSE Goto(s, "update")
    /\ UNCHANGED <<users, books, reviews, nextReviewId, review_likes,
                   user_favorites, review_comments, nextCommentId, now,
                   minutes, system_logs, requestCounts, pool, nextBookId,
                   admitted>>

\* UPDATE reviews SET <the fields given> WHERE id = ? (no trigger is declared
\* on UPDATE)
UpdateWrite(s) ==
    /\ At(s, "update", "update")
    /\ LET r == req[s].id
           body == req[s].body
       IN reviews' =
            IF r \notin DOMAIN reviews THEN reviews
            ELSE [reviews EXCEPT
                    ![r].title = IF body.title # Undefined THEN body.title ELSE @,
                    ![r].content =
                        IF body.content # Undefined THEN body.content ELSE @,
                    ![r].rating = IF body.rating # Null THEN body.rating ELSE @]
    /\ Goto(s, "reread")
    /\ UNCHANGED <<users, books, nextReviewId, review_likes, user_favorites,
                   review_comments, nextCommentId, now, minutes, system_logs,
                   requestCounts, pool, nextBookId, admitted>>

\* SELECT r.*, ... WHERE r.id = ?
UpdateReread(s) ==
    /\ At(s, "update", "reread")
    /\ Respond(s, 200, "OK")
    /\ UNCHANGED <<users, books, reviews, nextReviewId, review_likes,
                   user_favorites, review_comments, nextCommentId, now,
                   minutes, system_logs, requestCounts, pool, nextBookId,
                   admitted>>

\* ---------------------------------------------- DELETE /api/reviews/:id
DeleteArrive(s, token, r) ==
    /\ Arrive(s, "delete", token, r, NoBody)
    /\ UNCHANGED <<users, books, reviews, nextReviewId, review_likes,
                   user_favorites, review_comments, nextCommentId, now,
                   minutes, system_logs, requestCounts, pool, nextBookId,
                   admitted>>

\* SELECT * FROM reviews WHERE id = ? and the permission test
DeleteFindReview(s) ==
    /\ At(s, "delete", "start")
    /\ LET r == req[s].id
       IN IF r \notin DOMAIN reviews
          THEN Respond(s, 404, "NOT_FOUND")
          ELSE IF ~MayMutateReview(reviews[r].user_id, req[s].actor, req[s].role)
          THEN Respond(s, 403, "ACCESS_DENIED")
          ELSE Goto(s, "update")
    /\ UNCHANGED <<users, books, reviews, nextReviewId, review_likes,
                   user_favorites, review_comments, nextCommentId, now,
                   minutes, system_logs, requestCounts, pool, nextBookId,
                   admitted>>

\* a handler that runs DELETE FROM reviews WHERE id = ? instead
DeleteRemove(s) ==
    /\ At(s, "delete", "update")
    /\ reviews' = [r \in DOMAIN reviews \ {req[s].id} |-> reviews[r]]
    /\ Respond(s, 200, "OK")
    /\ UNCHANGED <<users, books, nextReviewId, review_likes, user_favorites,
                   review_comments, nextCommentId, now, minutes, system_logs,
                   requestCounts, pool, nextBookId, admitted>>

\* UPDATE reviews SET status = "hidden" WHERE id = ?
DeleteHide(s) ==
    /\ At(s, "delete", "update")
    /\ LET r == req[s].id
       IN reviews' = IF r \notin DOMAIN reviews THEN reviews
                     ELSE [reviews EXCEPT ![r].status = "hidden"]
    /\ Respond(s, 200, "OK")
    /\ UNCHANGED <<users, books, nextReviewId, review_likes, user_favorites,
                   review_comments, nextCommentId, now, minutes, system_logs,
                   requestCounts, pool, nextBookId, admitted>>

\* ------------------------------------- POST /api/comments/reviews/:id
CommentRow(r, u, parent, content, t) ==
    [review_id |-> r, user_id |-> u, parent_id |-> parent, content |-> content,
     status |-> "approved", created_at |-> t]

\* AFTER INSERT ON review_comments
update_comment_count_insert(rv, r) ==
    [rv EXCEPT ![r].comments_count = @ + 1]

\* a delete trigger that leaves comments_count alone
CommentCountKept(rv, r) == rv

\* AFTER DELETE ON review_comments, for the row the statement names
update_comment_count_delete(rv, r) ==
    IF r \notin DOMAIN rv THEN rv
    ELSE [rv EXCEPT ![r].comments_count = @ - 1]

\* !content || content.trim().length === 0
ValidContent(body) == body.content # Undefined /\ body.content # ""

\* requests that may still insert a comment row
CommentsInFlight ==
    Cardinality({s \in Slots : req[s].op \in {"comment", "reply"}
                               /\ req[s].pc \in {"start", "insert"}})

\* A request with a content body arrives: authenticateToken, then the test
\* of the body.
ContentArrive(s, op, token, id, body) ==
    /\ req[s].pc = "idle"
    /\ IF authenticateToken(token) = 0 /\ ~ValidContent(body)
       THEN req' = [req EXCEPT ![s] =
                      [Idle EXCEPT !.op = op, !.pc = "done", !.actor = token,
                                   !.role = users[token].role, !.id = id,
                                   !.body = body, !.status = 400,
                                   !.code = "VALIDATION"]]
       ELSE Arrive(s, op, token, id, body)

CommentArrive(s, token, r, body) ==
    /\ nextCommentId + CommentsInFlight <= MaxComments
    /\ ContentArrive(s, "comment", token, r, body)
    /\ UNCHANGED <<users, books, reviews, nextReviewId, review_likes,
                   user_favorites, review_comments, nextCommentId, now,
                   minutes, system_logs, requestCounts, pool, nextBookId,
                   admitted>>

\* SELECT id, user_id, status FROM reviews WHERE id = ?
CommentFindReview(s) ==
    /\ At(s, "comment", "start")
    /\ LET r == req[s].id
       IN IF r \notin DOMAIN reviews
          THEN Respond(s, 404, "NOT_FOUND")
          ELSE IF reviews[r].status # "approved"
          THEN Respond(s, 403, "REVIEW_NOT_APPROVED")
          ELSE Goto(s, "insert")
    /\ UNCHANGED <<users, books, reviews, nextReviewId, review_likes,
                   user_favorites, review_comments, nextCommentId, now,
                   minutes, system_logs, requestCounts, pool, nextBookId,
                   admitted>>

\* does INSERT INTO review_comments succeed? The three foreign keys.
CommentInsertAccepted(r, u, parent) ==
    /\ r \in DOMAIN reviews
    /\ u \in DOMAIN users
    /\ parent = Null \/ parent \in DOMAIN review_comments

\* INSERT INTO review_comments with its trigger, else the thrown error
InsertComment(s, r, parent) ==
    IF CommentInsertAccepted(r, req[s].actor, parent)
    THEN /\ review_comments' =
              [i \in DOMAIN review_comments \cup {nextCommentId} |->
                  IF i = nextCommentId
                  THEN CommentRow(r, req[s].actor, parent, req[s].body.content, now)
                  ELSE review_comments[i]]
         /\ reviews' = update_comment_count_insert(reviews, r)
         /\ nextCommentId' = nextCommentId + 1
         /\ req' = [req EXCEPT ![s].pc = "reread",
                               ![s].loc.insertId = nextCommentId]
    ELSE /\ Respond(s, 500, "INTERNAL")
         /\ UNCHANGED <<review_comments, reviews, nextCommentId>>

\* INSERT INTO review_comments (review_id, user_id, content)
CommentInsert(s) ==
    /\ At(s, "comment", "insert")
    /\ InsertComment(s, req[s].id, Null)
    /\ UNCHANGED <<users, books, nextReviewId, review_likes, user_favorites,
                   now, minutes, system_logs, requestCounts, pool,
                   nextBookId, admitted>>

\* SELECT rc.*, ... WHERE rc.id = ?
CommentReread(s) ==
    /\ At(s, "comment", "reread")
    /\ Respond(s, 201, "OK")
    /\ UNCHANGED <<users, books, reviews, nextReviewId, review_likes,
                   user_favorites, review_comments, nextCommentId, now,
                   minutes, system_logs, requestCounts, pool, nextBookId,
                   admitted>>

\* ------------------------------------------- POST /api/comments/:id/reply
ReplyArrive(s, token, c, body) ==
    /\ nextCommentId + CommentsInFlight <= MaxComments + MaxReplies
    /\ ContentArrive(s, "reply", token, c, body)
    /\ UNCHANGED <<users, books, reviews, nextReviewId, review_likes,
                   user_favorites, review_comments, nextCommentId, now,
                   minutes, system_logs, requestCounts, pool, nextBookId,
                   admitted>>

\* a parent lookup without the status filter
AnyStatusParent(cm, c) == c \in DOMAIN cm

\* WHERE rc.id = ? AND rc.status = 'approved'
ApprovedParent(cm, c) == c \in DOMAIN cm /\ cm[c].status = "approved"

\* SELECT rc.id, rc.review_id, r.status FROM review_comments rc JOIN reviews r
\* WHERE rc.id = ? AND rc.status = 'approved'
ReplyFindParent(s) ==
    /\ At(s, "reply", "start")
    /\ LET c == req[s].id
       IN IF \/ ~ApprovedParent(review_comments, c)
             \/ review_comments[c].review_id \notin DOMAIN reviews
          THEN Respond(s, 404, "NOT_FOUND")
          ELSE IF reviews[review_comments[c].review_id].status # "approved"
          THEN Respond(s, 403, "REVIEW_NOT_APPROVED")
          ELSE req' = [req EXCEPT ![s].pc = "insert",
                                  ![s].loc.review_id =
                                      review_comments[c].review_id]
    /\ UNCHANGED <<users, books, reviews, nextReviewId, review_likes,
                   user_favorites, review_comments, nextCommentId, now,
                   minutes, system_logs, requestCounts, pool, nextBookId,
                   admitted>>

\* INSERT INTO review_comments (review_id, user_id, parent_id, content)
ReplyInsert(s) ==
    /\ At(s, "reply", "insert")
    /\ InsertComment(s, req[s].loc.review_id, req[s].id)
    /\ UNCHANGED <<users, books, nextReviewId, review_likes, user_favorites,
                   now, minutes, system_logs, requestCounts, pool,
                   nextBookId, admitted>>

ReplyReread(s) ==
    /\ At(s, "reply", "reread")
    /\ Respond(s, 201, "OK")
    /\ UNCHANGED <<users, books, reviews, nextReviewId, review_likes,
                   user_favorites, review_comments, nextCommentId, now,
                   minutes, system_logs, requestCounts, pool, nextBookId,
                   admitted>>

\* ------------------------------------------------ PUT /api/comments/:id
\* an ownership test that also lets administrators through
OwnerOrAdminMayEdit(owner, actor, role) == owner = actor \/ role = "admin"

\* the ownership test of PUT /api/comments/:id
MayEditComment(owner, actor, role) == owner = actor

\* hoursDiff > 24
EditWindowHours == 24

\* a window that closes when the 24th hour is reached
EditWindowClosedAtLimit(created_at, t) == t - created_at >= EditWindowHours

EditWindowClosed(created_at, t) == t - created_at > EditWindowHours

EditCommentArrive(s, token, c, body) ==
    /\ ContentArrive(s, "editComment", token, c, body)
    /\ UNCHANGED <<users, books, reviews, nextReviewId, review_likes,
                   user_favorites, review_comments, nextCommentId, now,
                   minutes, system_logs, requestCounts, pool, nextBookId,
                   admitted>>

\* SELECT id, user_id, created_at FROM review_comments WHERE id = ?, the
\* ownership test and the edit window
EditCommentFind(s) ==
    /\ At(s, "editComment", "start")
    /\ LET c == req[s].id
       IN IF c \notin DOMAIN review_comments
          THEN Respond(s, 404, "NOT_FOUND")
          ELSE IF ~MayEditComment(review_comments[c].user_id, req[s].actor,
                                  req[s].role)
          THEN Respond(s, 403, "ACCESS_DENIED")
          ELSE IF EditWindowClosed(review_comments[c].created_at, now)
          THEN Respond(s, 403, "EDIT_WINDOW")
          ELSE Goto(s, "update")
    /\ UNCHANGED <<users, books, reviews, nextReviewId, review_likes,
                   user_favorites, review_comments, nextCommentId, now,
                   minutes, system_logs, requestCounts, pool, nextBookId,
                   admitted>>

\* UPDATE review_comments SET content = ? WHERE id = ?
EditCommentWrite(s) ==
    /\ At(s, "editComment", "update")
    /\ LET c == req[s].id
       IN review_comments' =
            IF c \notin DOMAIN review_comments THEN review_comments
            ELSE [review_comments EXCEPT ![c].content = req[s].body.content]
    /\ Goto(s, "reread")
    /\ UNCHANGED <<users, books, reviews, nextReviewId, review_likes,
                   user_favorites, nextCommentId, now, minutes, system_logs,
                   requestCounts, pool, nextBookId, admitted>>

EditCommentReread(s) ==
    /\ At(s, "editComment", "reread")
    /\ Respond(s, 200, "OK")
    /\ UNCHANGED <<users, books, reviews, nextReviewId, review_likes,
                   user_favorites, review_comments, nextCommentId, now,
                   minutes, system_logs, requestCounts, pool, nextBookId,
                   admitted>>

\* --------------------------------------------- DELETE /api/comments/:id
\* the permission test of DELETE /api/comments/:id
MayDeleteComment(owner, actor, role) == owner = actor \/ role = "admin"

DeleteCommentArrive(s, token, c) ==
    /\ Arrive(s, "deleteComment", token, c, NoBody)
    /\ UNCHANGED <<users, books, reviews, nextReviewId, review_likes,
                   user_favorites, review_comments, nextCommentId, now,
                   minutes, system_logs, requestCounts, pool, nextBookId,
                   admitted>>

\* SELECT id, user_id FROM review_comments WHERE id = ? and the permission
\* test
DeleteCommentFind(s) ==
    /\ At(s, "deleteComment", "start")
    /\ LET c == req[s].id
       IN IF c \notin DOMAIN review_comments
          THEN Respond(s, 404, "NOT_FOUND")
          ELSE IF ~MayDeleteComment(review_comments[c].user_id, req[s].actor,
                                    req[s].role)
          THEN Respond(s, 403, "ACCESS_DENIED")
          ELSE Goto(s, "count")
    /\ UNCHANGED <<users, books, reviews, nextReviewId, review_likes,
                   user_favorites, review_comments, nextCommentId, now,
                   minutes, system_logs, requestCounts, pool, nextBookId,
                   admitted>>

\* a replies count that finds nothing
NoReplies(cm, c) == {}

\* SELECT COUNT(*) FROM review_comments WHERE parent_id = ?
Replies(cm, c) == {i \in DOMAIN cm : cm[i].parent_id = c}

DeleteCommentCount(s) ==
    /\ At(s, "deleteComment", "count")
    /\ IF Cardinality(Replies(review_comments, req[s].id)) > 0
       THEN RespondWith(s, 409, "HAS_REPLIES",
                [NoData EXCEPT !.replies_count =
                    Cardinality(Replies(review_comments, req[s].id))])
       ELSE Goto(s, "delete")
    /\ UNCHANGED <<users, books, reviews, nextReviewId, review_likes,
                   user_favorites, review_comments, nextCommentId, now,
                   minutes, system_logs, requestCounts, pool, nextBookId,
                   admitted>>

\* the rows FOREIGN KEY (parent_id) ... ON DELETE CASCADE removes with S
RECURSIVE Cascade(_, _)
Cascade(cm, S) ==
    LET T == S \cup {i \in DOMAIN cm : cm[i].parent_id \in S}
    IN IF T = S THEN S ELSE Cascade(cm, T)

\* DELETE FROM review_comments WHERE id = ?
DeleteCommentRow(s) ==
    /\ At(s, "deleteComment", "delete")
    /\ LET c == req[s].id
       IN IF c \in DOMAIN review_comments
          THEN /\ review_comments' =
                    [i \in DOMAIN review_comments
                           \ Cascade(review_comments, {c}) |-> review_comments[i]]
               /\ reviews' = update_comment_count_delete(
                                 reviews, review_comments[c].review_id)
          ELSE UNCHANGED <<review_comments, reviews>>
    /\ Respond(s, 200, "OK")
    /\ UNCHANGED <<users, books, nextReviewId, review_likes, user_favorites,
                   nextCommentId, now, minutes, system_logs, requestCounts,
                   pool, nextBookId, admitted>>

\* ----------------------------------------- PUT /api/comments/:id/status
\* a middleware that lets every authenticated user through
AnyRole(role) == 0

\* requireAdmin
requireAdmin(role) == IF role = "admin" THEN 0 ELSE 403

ValidCommentStatuses == {"approved", "pending", "rejected"}

ModerateCommentArrive(s, token, c, body) ==
    /\ req[s].pc = "idle"
    /\ IF authenticateToken(token) = 0 /\ requireAdmin(users[token].role) # 0
       THEN req' = [req EXCEPT ![s] =
                      [Idle EXCEPT !.op = "moderateComment", !.pc = "done",
                                   !.actor = token, !.role = users[token].role,
                                   !.id = c, !.body = body, !.status = 403,
                                   !.code = "ADMIN_ONLY"]]
       ELSE IF authenticateToken(token) = 0
               /\ body.status \notin ValidCommentStatuses
       THEN req' = [req EXCEPT ![s] =
                      [Idle EXCEPT !.op = "moderateComment", !.pc = "done",
                                   !.actor = token, !.role = users[token].role,
                                   !.id = c, !.body = body, !.status = 400,
                                   !.code = "VALIDATION"]]
       ELSE Arrive(s, "moderateComment", token, c, body)
    /\ UNCHANGED <<users, books, reviews, nextReviewId, review_likes,
                   user_favorites, review_comments, nextCommentId, now,
                   minutes, system_logs, requestCounts, pool, nextBookId,
                   admitted>>

\* SELECT id, status FROM review_comments WHERE id = ?
ModerateCommentFind(s) ==
    /\ At(s, "moderateComment", "start")
    /\ IF req[s].id \notin DOMAIN review_comments
       THEN Respond(s, 404, "NOT_FOUND")
       ELSE Goto(s, "update")
    /\ UNCHANGED <<users, books, reviews, nextReviewId, review_likes,
                   user_favorites, review_comments, nextCommentId, now,
                   minutes, system_logs, requestCounts, pool, nextBookId,
                   admitted>>

\* UPDATE review_comments SET status = ? WHERE id = ?
ModerateCommentWrite(s) ==
    /\ At(s, "moderateComment", "update")
    /\ LET c == req[s].id
       IN review_comments' =
            IF c \notin DOMAIN review_comments THEN review_comments
            ELSE [review_comments EXCEPT ![c].status = req[s].body.status]
    /\ Respond(s, 200, "OK")
    /\ UNCHANGED <<users, books, reviews, nextReviewId, review_likes,
                   user_favorites, nextCommentId, now, minutes, system_logs,
                   requestCounts, pool, nextBookId, admitted>>

\* ------------------------------------------------------- read endpoints
\* A request arrives on a route without authentication middleware. `caller`
\* is who sent it; the handler never learns it.
ReadArrive(s, op, caller, id, body) ==
    /\ req[s].pc = "idle"
    /\ req' = [req EXCEPT ![s] =
                 [Idle EXCEPT !.op = op, !.pc = "start", !.actor = caller,
                              !.id = id, !.body = body]]
    /\ UNCHANGED <<users, books, reviews, nextReviewId, review_likes,
                   user_favorites, review_comments, nextCommentId, now,
                   minutes, system_logs, requestCounts, pool, nextBookId,
                   admitted>>

\* the rows of the joins FROM reviews r JOIN books b JOIN users u
JoinedReviews ==
    {r \in DOMAIN reviews : reviews[r].book_id \in DOMAIN books
                            /\ reviews[r].user_id \in DOMAIN users}

\* GET /api/reviews?status=...: status = 'approved' unless the query string
\* gives one
ListReviewsArrive(s, caller, body) == ReadArrive(s, "listReviews", caller, 0, body)

\* SELECT r.*, ... FROM reviews r ... WHERE r.status = ?
ListReviewsQuery(s) ==
    /\ At(s, "listReviews", "start")
    /\ LET status == IF req[s].body.status = Undefined THEN "approved"
                     ELSE req[s].body.status
       IN RespondWith(s, 200, "OK",
              [NoData EXCEPT !.reviews =
                  {r \in JoinedReviews : reviews[r].status = status}])
    /\ UNCHANGED <<users, books, reviews, nextReviewId, review_likes,
                   user_favorites, review_comments, nextCommentId, now,
                   minutes, system_logs, requestCounts, pool, nextBookId,
                   admitted>>

\* GET /api/reviews/:id
GetReviewArrive(s, caller, r) == ReadArrive(s, "getReview", caller, r, NoBody)

\* SELECT r.*, ... WHERE r.id = ? AND r.status = 'approved'
GetReviewQuery(s) ==
    /\ At(s, "getReview", "start")
    /\ LET r == req[s].id
       IN IF r \in JoinedReviews /\ reviews[r].status = "approved"
          THEN RespondWith(s, 200, "OK", [NoData EXCEPT !.reviews = {r}])
          ELSE Respond(s, 404, "REVIEW_NOT_FOUND")
    /\ UNCHANGED <<users, books, reviews, nextReviewId, review_likes,
                   user_favorites, review_comments, nextCommentId, now,
                   minutes, system_logs, requestCounts, pool, nextBookId,
                   admitted>>

\* GET /api/comments/:id
GetCommentArrive(s, caller, c) == ReadArrive(s, "getComment", caller, c, NoBody)

\* SELECT rc.*, ... FROM review_comments rc JOIN users JOIN reviews JOIN books
\* WHERE rc.id = ?, then the approved replies
GetCommentQuery(s) ==
    /\ At(s, "getComment", "start")
    /\ LET c == req[s].id
       IN IF c \in DOMAIN review_comments
             /\ review_comments[c].review_id \in JoinedReviews
          THEN RespondWith(s, 200, "OK",
                   [NoData EXCEPT !.comments =
                       {c} \cup {i \in Replies(review_comments, c) :
                                    review_comments[i].status = "approved"}])
          ELSE Respond(s, 404, "NOT_FOUND")
    /\ UNCHANGED <<users, books, reviews, nextReviewId, review_likes,
                   user_favorites, review_comments, nextCommentId, now,
                   minutes, system_logs, requestCounts, pool, nextBookId,
                   admitted>>

\* GET /api/comments/reviews/:reviewId
ListCommentsArrive(s, caller, r) ==
    ReadArrive(s, "listComments", caller, r, NoBody)

\* SELECT id FROM reviews WHERE id = ?, then the approved top-level comments
\* of the review, each with its approved replies
ListCommentsQuery(s) ==
    /\ At(s, "listComments", "start")
    /\ LET r == req[s].id
           top == {c \in DOMAIN review_comments :
                      /\ review_comments[c].review_id = r
                      /\ review_comments[c].parent_id = Null
                      /\ review_comments[c].status = "approved"}
       IN IF r \notin DOMAIN reviews
          THEN Respond(s, 404, "NOT_FOUND")
          ELSE RespondWith(s, 200, "OK",
                   [NoData EXCEPT !.comments =
                       top \cup {i \in DOMAIN review_comments :
                                    /\ review_comments[i].parent_id \in top
                                    /\ review_comments[i].status = "approved"}])
    /\ UNCHANGED <<users, books, reviews, nextReviewId, review_likes,
                   user_favorites, review_comments, nextCommentId, now,
                   minutes, system_logs, requestCounts, pool, nextBookId,
                   admitted>>

\* ----------------------------------------------- GET /api/profile/:userId
\* req.user as optionalAuth leaves it: null, or an object with the fields
\* userId and role (email, username and avatar_url play no part here)
NoUser == [userId |-> Anonymous, role |-> "none"]

optionalAuth(token) ==
    IF token # Anonymous /\ token \in DOMAIN users
       /\ users[token].status = "active"
    THEN [userId |-> token, role |-> users[token].role]
    ELSE NoUser

\* user.<f>: undefined (Null) for a field the object does not have
Property(user, f) == IF f \in DOMAIN user THEN user[f] ELSE Null

\* req.user && req.user.id == targetUserId
isOwnProfile(user, target) == user # NoUser /\ Property(user, "id") = target

\* the default map, replaced by JSON.parse(user.privacy_settings) when the
\* column is not NULL and parses
privacySettings(stored) ==
    IF stored.kind = "json" THEN stored.map ELSE AllPublic

\* responseData of the handler, "stats" and "history" standing for the two
\* blocks and "settings" for the map
responseData(row, own, p) ==
    [avatar_url |-> row.avatar_url,
     signature |-> IF own \/ p.signature THEN row.signature ELSE JsNull,
     stats |-> IF own \/ p.stats THEN "stats" ELSE JsNull,
     history |-> IF own \/ p.history THEN "history" ELSE JsNull,
     privacy_settings |-> IF own THEN "settings" ELSE JsNull,
     is_own_profile |-> own]

\* optionalAuth, then the handler starts
ProfileArrive(s, token, target) ==
    /\ req[s].pc = "idle"
    /\ req' = [req EXCEPT ![s] =
                 [Idle EXCEPT !.op = "getProfile", !.pc = "start",
                              !.actor = optionalAuth(token).userId,
                              !.role = optionalAuth(token).role,
                              !.id = target]]
    /\ UNCHANGED <<users, books, reviews, nextReviewId, review_likes,
                   user_favorites, review_comments, nextCommentId, now,
                   minutes, system_logs, requestCounts, pool, nextBookId,
                   admitted>>

\* SELECT ... FROM users WHERE id = ? AND status = 'active', the privacy
\* tests and the response
ProfileQuery(s) ==
    /\ At(s, "getProfile", "start")
    /\ LET target == req[s].id
           user == IF req[s].actor = Anonymous THEN NoUser
                   ELSE [userId |-> req[s].actor, role |-> req[s].role]
       IN IF target \in DOMAIN users /\ users[target].status = "active"
          THEN RespondWith(s, 200, "OK",
                   [NoData EXCEPT !.profile =
                       responseData(users[target], isOwnProfile(user, target),
                                    privacySettings(users[target].privacy_settings))])
          ELSE Respond(s, 404, "NOT_FOUND")
    /\ UNCHANGED <<users, books, reviews, nextReviewId, review_likes,
                   user_favorites, review_comments, nextCommentId, now,
                   minutes, system_logs, requestCounts, pool, nextBookId,
                   admitted>>

\* ------------------------------------------------------------ the clock
\* --------------------------------------------- POST /api/reviews/:id/view
\* Date.now(), in minutes
Now == now * 60 + minutes

\* timeWindow, in minutes
ViewWindowMinutes == 30

\* a system_logs row of action 'view_review'; sender records who sent the
\* request and is no column of the table
ViewLogRow(userId, r, ip, t, sender) ==
    [user_id |-> userId, target_id |-> r, ip_address |-> ip, created_at |-> t,
     sender |-> sender]

\* req.user in the handler: the route is mounted without any authentication
\* middleware, so nothing ever sets it
RouteUser == NoUser

\* req.user ? req.user.userId : null
ViewUserId(user) == IF user # NoUser THEN Property(user, "userId") ELSE Null

\* The request arrives from address ip, sent by caller with or without a
\* token.
ViewArrive(s, caller, ip, r) ==
    /\ req[s].pc = "idle"
    /\ Len(system_logs) < MaxViews
    /\ \A i \in DOMAIN reviews : reviews[i].views < MaxViews
    /\ req' = [req EXCEPT ![s] =
                 [Idle EXCEPT !.op = "view", !.pc = "start", !.actor = caller,
                              !.id = r, !.ip = ip]]
    /\ UNCHANGED <<users, books, reviews, nextReviewId, review_likes,
                   user_favorites, review_comments, nextCommentId, now,
                   minutes, system_logs, requestCounts, pool, nextBookId,
                   admitted>>

\* SELECT id FROM reviews WHERE id = ? AND status = "approved"
ViewFindReview(s) ==
    /\ At(s, "view", "start")
    /\ IF req[s].id \in DOMAIN reviews /\ reviews[req[s].id].status = "approved"
       THEN Goto(s, "recent")
       ELSE Respond(s, 404, "REVIEW_NOT_FOUND")
    /\ UNCHANGED <<users, books, reviews, nextReviewId, review_likes,
                   user_favorites, review_comments, nextCommentId, now,
                   minutes, system_logs, requestCounts, pool, nextBookId,
                   admitted>>

\* SELECT id FROM system_logs WHERE <user_id = ? | ip_address = ?>
\*   AND action = 'view_review' AND target_id = ? AND created_at > ?
recentViews(userId, ip, r, windowStart) ==
    {i \in DOMAIN system_logs :
        /\ IF userId # Null THEN system_logs[i].user_id = userId
                            ELSE system_logs[i].ip_address = ip
        /\ system_logs[i].target_id = r
        /\ system_logs[i].created_at > windowStart}

\* windowStart, the query of the recent views, shouldCount
ViewRecent(s) ==
    /\ At(s, "view", "recent")
    /\ LET windowStart == Now - ViewWindowMinutes
           found == recentViews(ViewUserId(RouteUser), req[s].ip, req[s].id,
                                windowStart)
       IN req' = [req EXCEPT ![s].pc = IF found = {} THEN "update" ELSE "reread",
                             ![s].loc.shouldCount = (found = {})]
    /\ UNCHANGED <<users, books, reviews, nextReviewId, review_likes,
                   user_favorites, review_comments, nextCommentId, now,
                   minutes, system_logs, requestCounts, pool, nextBookId,
                   admitted>>

\* UPDATE reviews SET views = views + 1 WHERE id = ?
ViewIncrement(s) ==
    /\ At(s, "view", "update")
    /\ reviews' = IF req[s].id \in DOMAIN reviews
                  THEN [reviews EXCEPT ![req[s].id].views = @ + 1]
                  ELSE reviews
    /\ Goto(s, "log")
    /\ UNCHANGED <<users, books, nextReviewId, review_likes, user_favorites,
                   review_comments, nextCommentId, now, minutes, system_logs,
                   requestCounts, pool, nextBookId, admitted>>

\* INSERT INTO system_logs (user_id, action, target_type, target_id,
\* ip_address, user_agent) VALUES (?, 'view_review', 'review', ?, ?, ?)
ViewLog(s) ==
    /\ At(s, "view", "log")
    /\ system_logs' = Append(system_logs,
                         ViewLogRow(ViewUserId(RouteUser), req[s].id, req[s].ip,
                                    Now, req[s].actor))
    /\ Goto(s, "reread")
    /\ UNCHANGED <<users, books, reviews, nextReviewId, review_likes,
                   user_favorites, review_comments, nextCommentId, now,
                   minutes, requestCounts, pool, nextBookId, admitted>>

\* The same INSERT rejected by the database (connection lost, lock wait
\* timeout): query throws and the handler's catch answers 500.  The UPDATE
\* before it ran on its own pooled connection in autocommit mode.
ViewLogFail(s) ==
    /\ At(s, "view", "log")
    /\ Respond(s, 500, "VIEW_RECORD_ERROR")
    /\ UNCHANGED <<users, books, reviews, nextReviewId, review_likes,
                   user_favorites, review_comments, nextCommentId, now,
                   minutes, system_logs, requestCounts, pool, nextBookId,
                   admitted>>

\* SELECT views FROM reviews WHERE id = ?
ViewReread(s) ==
    /\ At(s, "view", "reread")
    /\ IF req[s].id \in DOMAIN reviews
       THEN RespondWith(s, 200, "OK",
                [NoData EXCEPT !.views = reviews[req[s].id].views,
                               !.counted = req[s].loc.shouldCount])
       ELSE Respond(s, 500, "VIEW_RECORD_ERROR")
    /\ UNCHANGED <<users, books, reviews, nextReviewId, review_likes,
                   user_favorites, review_comments, nextCommentId, now,
                   minutes, system_logs, requestCounts, pool, nextBookId,
                   admitted>>

\* m minutes pass
TickMinutes(m) ==
    /\ Now + m <= MaxMinutes
    /\ now' = (Now + m) \div 60
    /\ minutes' = (Now + m) % 60
    /\ UNCHANGED <<users, books, reviews, nextReviewId, review_likes,
                   user_favorites, review_comments, nextCommentId,
                   system_logs, requestCounts, pool, nextBookId, admitted,
                   req>>

\* ------------------------------------------------------ POST /api/books
MaxBooks == 2

\* requests that may still insert a books row
BookCreatesInFlight ==
    Cardinality({s \in Slots : req[s].op = "createBook"
                               /\ req[s].pc \in {"start", "insert"}})

\* authenticateToken, then validate.books.create (title and author required)
BookCreateArrive(s, token, body) ==
    /\ nextBookId + BookCreatesInFlight <= MaxBooks
    /\ req[s].pc = "idle"
    /\ IF authenticateToken(token) = 0
          /\ Undefined \in {body.title, body.author}
       THEN req' = [req EXCEPT ![s] =
                      [Idle EXCEPT !.op = "createBook", !.pc = "done",
                                   !.actor = token, !.role = users[token].role,
                                   !.body = body, !.status = 400,
                                   !.code = "VALIDATION"]]
       ELSE Arrive(s, "createBook", token, 0, body)
    /\ UNCHANGED <<users, books, reviews, nextReviewId, review_likes,
                   user_favorites, review_comments, nextCommentId, now,
                   minutes, system_logs, requestCounts, pool, nextBookId,
                   admitted>>

\* SELECT id, title, author FROM books WHERE title = ? AND author = ?
BookCreateCheck(s) ==
    /\ At(s, "createBook", "start")
    /\ IF \E b \in DOMAIN books : /\ books[b].title = req[s].body.title
                                  /\ books[b].author = req[s].body.author
       THEN Respond(s, 409, "BOOK_EXISTS")
       ELSE Goto(s, "insert")
    /\ UNCHANGED <<users, books, reviews, nextReviewId, review_likes,
                   user_favorites, review_comments, nextCommentId, now,
                   minutes, system_logs, requestCounts, pool, nextBookId,
                   admitted>>

\* INSERT INTO books (title, author, ...) VALUES (...)
BookCreateInsert(s) ==
    /\ At(s, "createBook", "insert")
    /\ books' = [b \in DOMAIN books \cup {nextBookId} |->
                    IF b \in DOMAIN books THEN books[b]
                    ELSE [BookRow EXCEPT !.title = req[s].body.title,
                                         !.author = req[s].body.author]]
    /\ nextBookId' = nextBookId + 1
    /\ req' = [req EXCEPT ![s].pc = "reread", ![s].id = nextBookId]
    /\ UNCHANGED <<users, reviews, nextReviewId, review_likes,
                   user_favorites, review_comments, nextCommentId, now,
                   minutes, system_logs, requestCounts, pool, admitted>>

\* SELECT * FROM books WHERE id = ?
BookCreateReread(s) ==
    /\ At(s, "createBook", "reread")
    /\ Respond(s, 201, "OK")
    /\ UNCHANGED <<users, books, reviews, nextReviewId, review_likes,
                   user_favorites, review_comments, nextCommentId, now,
                   minutes, system_logs, requestCounts, pool, nextBookId,
                   admitted>>

\* --------------------------------------------------- PUT /api/books/:id
\* authenticateToken, then validate.books.update (at least one field)
BookUpdateArrive(s, token, b, body) ==
    /\ req[s].pc = "idle"
    /\ IF authenticateToken(token) = 0
          /\ body.title = Undefined /\ body.author = Undefined
       THEN req' = [req EXCEPT ![s] =
                      [Idle EXCEPT !.op = "updateBook", !.pc = "done",
                                   !.actor = token, !.role = users[token].role,
                                   !.id = b, !.body = body, !.status = 400,
                                   !.code = "VALIDATION"]]
       ELSE Arrive(s, "updateBook", token, b, body)
    /\ UNCHANGED <<users, books, reviews, nextReviewId, review_likes,
                   user_favorites, review_comments, nextCommentId, now,
                   minutes, system_logs, requestCounts, pool, nextBookId,
                   admitted>>

\* SELECT id FROM books WHERE id = ?
BookUpdateFind(s) ==
    /\ At(s, "updateBook", "start")
    /\ IF req[s].id \notin DOMAIN books
       THEN Respond(s, 404, "NOT_FOUND")
       ELSE Goto(s, "update")
    /\ UNCHANGED <<users, books, reviews, nextReviewId, review_likes,
                   user_favorites, review_comments, nextCommentId, now,
                   minutes, system_logs, requestCounts, pool, nextBookId,
                   admitted>>

\* UPDATE books SET <title = ?,> <author = ?,> ... WHERE id = ?
BookUpdateWrite(s) ==
    /\ At(s, "updateBook", "update")
    /\ LET b == req[s].id
           body == req[s].body
       IN books' =
            IF b \notin DOMAIN books THEN books
            ELSE [books EXCEPT
                    ![b].title = IF body.title = Undefined THEN @ ELSE body.title,
                    ![b].author = IF body.author = Undefined THEN @
                                  ELSE body.author]
    /\ Goto(s, "reread")
    /\ UNCHANGED <<users, reviews, nextReviewId, review_likes,
                   user_favorites, review_comments, nextCommentId, now,
                   minutes, system_logs, requestCounts, pool, nextBookId,
                   admitted>>

\* SELECT * FROM books WHERE id = ?
BookUpdateReread(s) ==
    /\ At(s, "updateBook", "reread")
    /\ Respond(s, 200, "OK")
    /\ UNCHANGED <<users, books, reviews, nextReviewId, review_likes,
                   user_favorites, review_comments, nextCommentId, now,
                   minutes, system_logs, requestCounts, pool, nextBookId,
                   admitted>>

\* routes/books.js as server.js mounts it: PUT /:id and DELETE /:id behind
\* authenticateToken answer 501 and run no query
BookStub(s, op, token, b) ==
    /\ req[s].pc = "idle"
    /\ IF authenticateToken(token) = 0
       THEN req' = [req EXCEPT ![s] =
                      [Idle EXCEPT !.op = op, !.pc = "done", !.actor = token,
                                   !.role = users[token].role, !.id = b,
                                   !.status = 501,
                                   !.code = "FEATURE_IN_DEVELOPMENT"]]
       ELSE Arrive(s, op, token, b, NoBody)
    /\ UNCHANGED <<users, books, reviews, nextReviewId, review_likes,
                   user_favorites, review_comments, nextCommentId, now,
                   minutes, system_logs, requestCounts, pool, nextBookId,
                   admitted>>

\* ------------------------------------------------ DELETE /api/books/:id
\* a route mounted without requireAdmin
BookDeleteArriveAnyone(s, token, b) ==
    /\ Arrive(s, "deleteBook", token, b, NoBody)
    /\ UNCHANGED <<users, books, reviews, nextReviewId, review_likes,
                   user_favorites, review_comments, nextCommentId, now,
                   minutes, system_logs, requestCounts, pool, nextBookId,
                   admitted>>

\* authenticateToken, requireAdmin, validate.books.delete
BookDeleteArrive(s, token, b) ==
    /\ req[s].pc = "idle"
    /\ IF authenticateToken(token) = 0 /\ requireAdmin(users[token].role) # 0
       THEN req' = [req EXCEPT ![s] =
                      [Idle EXCEPT !.op = "deleteBook", !.pc = "done",
                                   !.actor = token, !.role = users[token].role,
                                   !.id = b, !.status = 403,
                                   !.code = "ADMIN_ONLY"]]
       ELSE Arrive(s, "deleteBook", token, b, NoBody)
    /\ UNCHANGED <<users, books, reviews, nextReviewId, review_likes,
                   user_favorites, review_comments, nextCommentId, now,
                   minutes, system_logs, requestCounts, pool, nextBookId,
                   admitted>>

\* SELECT id, title FROM books WHERE id = ?
BookDeleteFind(s) ==
    /\ At(s, "deleteBook", "start")
    /\ IF req[s].id \notin DOMAIN books
       THEN Respond(s, 404, "NOT_FOUND")
       ELSE Goto(s, "count")
    /\ UNCHANGED <<users, books, reviews, nextReviewId, review_likes,
                   user_favorites, review_comments, nextCommentId, now,
                   minutes, system_logs, requestCounts, pool, nextBookId,
                   admitted>>

\* the reviews of book b
ReviewsOfBook(rv, b) == {i \in DOMAIN rv : rv[i].book_id = b}

\* SELECT COUNT(*) as count FROM reviews WHERE book_id = ?
BookDeleteCount(s) ==
    /\ At(s, "deleteBook", "count")
    /\ req' = [req EXCEPT ![s].pc = "delete",
                          ![s].loc.count =
                              Cardinality(ReviewsOfBook(reviews, req[s].id))]
    /\ UNCHANGED <<users, books, reviews, nextReviewId, review_likes,
                   user_favorites, review_comments, nextCommentId, now,
                   minutes, system_logs, requestCounts, pool, nextBookId,
                   admitted>>

\* the join table without the rows whose review is in gone
WithoutReviews(table, gone) ==
    LET keep == {p \in BagToSet(table) : p[2] \notin gone}
    IN [p \in keep |-> CopiesIn(p, table)]

\* DELETE FROM books WHERE id = ?: the foreign keys remove the book's reviews
\* and, with them, their likes, favorites and comments.  Rows removed by a
\* foreign key fire no trigger, so no counter is touched.
BookDeleteRow(s) ==
    /\ At(s, "deleteBook", "delete")
    /\ LET b == req[s].id
           gone == ReviewsOfBook(reviews, b)
       IN /\ books' = [i \in DOMAIN books \ {b} |-> books[i]]
          /\ reviews' = [i \in DOMAIN reviews \ gone |-> reviews[i]]
          /\ review_likes' = WithoutReviews(review_likes, gone)
          /\ user_favorites' = WithoutReviews(user_favorites, gone)
          /\ review_comments' =
                [i \in {j \in DOMAIN review_comments :
                           review_comments[j].review_id \notin gone} |->
                    review_comments[i]]
    /\ RespondWith(s, 200, "OK",
            [NoData EXCEPT !.deleted_reviews = req[s].loc.count])
    /\ UNCHANGED <<users, nextReviewId, nextCommentId, now, minutes,
                   system_logs, requestCounts, pool, nextBookId, admitted>>

\* ------------------------------------------------------------ rateLimit
\* const requestCounts = new Map(), shared by every rateLimit(...) instance

\* the pruning loop: every IP keeps the times after windowStart, an IP with
\* none left is deleted
PrunedCounts(counts, windowStart) ==
    LET valid(ip) == SelectSeq(counts[ip], LAMBDA time : time > windowStart)
    IN [ip \in {i \in DOMAIN counts : valid(i) # <<>>} |-> valid(ip)]

\* a limiter that records the requests it rejects as well
rateLimitRecordingAll(counts, clientIP, t, maxRequests, windowMinutes) ==
    LET windowStart == t - windowMinutes
        clientRequests == IF clientIP \in DOMAIN counts THEN counts[clientIP]
                          ELSE <<>>
        recentRequests == SelectSeq(clientRequests,
                                    LAMBDA time : time > windowStart)
    IN [admitted |-> Len(recentRequests) < maxRequests,
        counts |-> [ip \in DOMAIN counts \cup {clientIP} |->
                       IF ip = clientIP THEN Append(recentRequests, t)
                       ELSE counts[ip]]]

\* one call of the middleware rateLimit(maxRequests, windowMinutes) for a
\* request of clientIP at time t (minutes): whether next() is called, and the
\* Map it leaves
rateLimit(counts, clientIP, t, maxRequests, windowMinutes) ==
    LET windowStart == t - windowMinutes
        pruned == PrunedCounts(counts, windowStart)
        clientRequests == IF clientIP \in DOMAIN pruned THEN pruned[clientIP]
                          ELSE <<>>
        recentRequests == SelectSeq(clientRequests,
                                    LAMBDA time : time > windowStart)
    IN IF Len(recentRequests) >= maxRequests
       THEN [admitted |-> FALSE, counts |-> pruned]
       ELSE [admitted |-> TRUE,
             counts |-> [ip \in DOMAIN pruned \cup {clientIP} |->
                            IF ip = clientIP THEN Append(recentRequests, t)
                            ELSE pruned[ip]]]

\* the history of admitted requests with one more entry
Admit(history, ip, t) ==
    [i \in DOMAIN history \cup {ip} |->
        IF i = ip THEN Append(IF ip \in DOMAIN history THEN history[ip] ELSE <<>>, t)
        ELSE history[i]]

\* the arguments of rateLimit(5, 15) on /register and /login
AuthMaxRequests == 5
AuthWindowMinutes == 15

\* ------------------------------------------------ POST /api/auth/register
\* sample strings the three validators reject
validateEmail(email) == email # "ann.x.io"
validateUsername(username) == username # "a"
validatePassword(password) == password # "short"

\* id INT AUTO_INCREMENT of users (no row is ever deleted)
nextUserId == Cardinality(DOMAIN users) + 1

\* rateLimit(5, 15), then the synchronous validation of the body
RegisterArrive(s, ip, body) ==
    /\ req[s].pc = "idle"
    /\ LET r == rateLimit(requestCounts, ip, Now, AuthMaxRequests,
                          AuthWindowMinutes)
           this == [Idle EXCEPT !.op = "register", !.ip = ip, !.body = body]
           answer(n, code) ==
               [this EXCEPT !.pc = "done", !.status = n, !.code = code]
       IN /\ requestCounts' = r.counts
          /\ admitted' = IF r.admitted THEN Admit(admitted, ip, Now)
                         ELSE admitted
          /\ req' = [req EXCEPT ![s] =
               IF ~r.admitted THEN answer(429, "RATE_LIMIT_EXCEEDED")
               ELSE IF Undefined \in {body.email, body.username, body.password}
               THEN answer(400, "MISSING_FIELDS")
               ELSE IF ~validateEmail(body.email)
               THEN answer(400, "INVALID_EMAIL")
               ELSE IF ~validateUsername(body.username)
               THEN answer(400, "INVALID_USERNAME")
               ELSE IF ~validatePassword(body.password)
               THEN answer(400, "INVALID_PASSWORD")
               ELSE [this EXCEPT !.pc = "start"]]
    /\ UNCHANGED <<users, books, reviews, nextReviewId, review_likes,
                   user_favorites, review_comments, nextCommentId, now,
                   minutes, system_logs, pool, nextBookId>>

\* SELECT id FROM users WHERE email = ?
RegisterCheckEmail(s) ==
    /\ At(s, "register", "start")
    /\ IF \E u \in DOMAIN users : users[u].email = req[s].body.email
       THEN Respond(s, 409, "EMAIL_EXISTS")
       ELSE Goto(s, "username")
    /\ UNCHANGED <<users, books, reviews, nextReviewId, review_likes,
                   user_favorites, review_comments, nextCommentId, now,
                   minutes, system_logs, requestCounts, pool, nextBookId,
                   admitted>>

\* SELECT id FROM users WHERE username = ?
RegisterCheckUsername(s) ==
    /\ At(s, "register", "username")
    /\ IF \E u \in DOMAIN users : users[u].username = req[s].body.username
       THEN Respond(s, 409, "USERNAME_EXISTS")
       ELSE Goto(s, "insert")
    /\ UNCHANGED <<users, books, reviews, nextReviewId, review_likes,
                   user_favorites, review_comments, nextCommentId, now,
                   minutes, system_logs, requestCounts, pool, nextBookId,
                   admitted>>

\* email VARCHAR(255) UNIQUE is the only unique key of users besides the id
EmailKeyFree(table, email) == \A u \in DOMAIN table : table[u].email # email

\* bcrypt.hash, INSERT INTO users (...) VALUES (?, ?, ?, ?, 'user', 'active')
\* and the 201 response; a duplicate email makes query() throw
RegisterInsert(s) ==
    /\ At(s, "register", "insert")
    /\ IF EmailKeyFree(users, req[s].body.email)
       THEN /\ users' = [u \in DOMAIN users \cup {nextUserId} |->
                           IF u \in DOMAIN users THEN users[u]
                           ELSE [UserRow(1) EXCEPT
                                    !.email = req[s].body.email,
                                    !.username = req[s].body.username,
                                    !.bio = IF req[s].body.bio = Undefined
                                            THEN "" ELSE req[s].body.bio,
                                    !.role = "user",
                                    !.avatar_url = JsNull,
                                    !.signature = JsNull]]
            /\ Respond(s, 201, "OK")
       ELSE /\ Respond(s, 500, "REGISTRATION_ERROR")
            /\ UNCHANGED users
    /\ UNCHANGED <<books, reviews, nextReviewId, review_likes,
                   user_favorites, review_comments, nextCommentId, now,
                   minutes, system_logs, requestCounts, pool, nextBookId,
                   admitted>>

\* --------------------------------------------------- POST /api/auth/login
\* rateLimit(5, 15), then the test for missing credentials
LoginArrive(s, ip, body) ==
    /\ req[s].pc = "idle"
    /\ LET r == rateLimit(requestCounts, ip, Now, AuthMaxRequests,
                          AuthWindowMinutes)
           this == [Idle EXCEPT !.op = "login", !.ip = ip, !.body = body]
       IN /\ requestCounts' = r.counts
          /\ admitted' = IF r.admitted THEN Admit(admitted, ip, Now)
                         ELSE admitted
          /\ req' = [req EXCEPT ![s] =
               IF ~r.admitted
               THEN [this EXCEPT !.pc = "done", !.status = 429,
                                 !.code = "RATE_LIMIT_EXCEEDED"]
               ELSE IF Undefined \in {body.email, body.password}
               THEN [this EXCEPT !.pc = "done", !.status = 400,
                                 !.code = "MISSING_CREDENTIALS"]
               ELSE [this EXCEPT !.pc = "start"]]
    /\ UNCHANGED <<users, books, reviews, nextReviewId, review_likes,
                   user_favorites, review_comments, nextCommentId, now,
                   minutes, system_logs, pool, nextBookId>>

\* SELECT ... FROM users WHERE email = ?, the status test and
\* bcrypt.compare; every account of the model has the password "passw0rd"
LoginFind(s) ==
    /\ At(s, "login", "start")
    /\ LET found == {u \in DOMAIN users : users[u].email = req[s].body.email}
       IN IF found = {} THEN Respond(s, 401, "INVALID_CREDENTIALS")
          ELSE LET u == CHOOSE x \in found : TRUE
               IN IF users[u].status # "active"
                  THEN Respond(s, 403, "ACCOUNT_DISABLED")
                  ELSE IF req[s].body.password # "passw0rd"
                  THEN Respond(s, 401, "INVALID_CREDENTIALS")
                  ELSE req' = [req EXCEPT ![s].pc = "update", ![s].actor = u,
                                          ![s].role = users[u].role]
    /\ UNCHANGED <<users, books, reviews, nextReviewId, review_likes,
                   user_favorites, review_comments, nextCommentId, now,
                   minutes, system_logs, requestCounts, pool, nextBookId,
                   admitted>>

\* UPDATE users SET updated_at = CURRENT_TIMESTAMP WHERE id = ? (a column
\* the model does not keep) and the 200 response
LoginUpdate(s) ==
    /\ At(s, "login", "update")
    /\ Respond(s, 200, "OK")
    /\ UNCHANGED <<users, books, reviews, nextReviewId, review_likes,
                   user_favorites, review_comments, nextCommentId, now,
                   minutes, system_logs, requestCounts, pool, nextBookId,
                   admitted>>

\* --------------------------------------------------- PUT /api/auth/profile
\* authenticateToken, then validateUsername when a username is given
AccountArrive(s, token, body) ==
    /\ Arrive(s, "updateAccount", token, 0, body)
    /\ UNCHANGED <<users, books, reviews, nextReviewId, review_likes,
                   user_favorites, review_comments, nextCommentId, now,
                   minutes, system_logs, requestCounts, pool, nextBookId,
                   admitted>>

\* the tests after the username check: bio.length > 500, updates.length === 0
AccountPrepare(s) ==
    IF req[s].body.bio = "long" THEN Respond(s, 400, "BIO_TOO_LONG")
    ELSE IF req[s].body.username = Undefined /\ req[s].body.bio = Undefined
    THEN Respond(s, 400, "NO_UPDATES")
    ELSE Goto(s, "update")

AccountValidate(s) ==
    /\ At(s, "updateAccount", "start")
    /\ IF req[s].body.username = Undefined THEN AccountPrepare(s)
       ELSE IF ~validateUsername(req[s].body.username)
       THEN Respond(s, 400, "INVALID_USERNAME")
       ELSE Goto(s, "username")
    /\ UNCHANGED <<users, books, reviews, nextReviewId, review_likes,
                   user_favorites, review_comments, nextCommentId, now,
                   minutes, system_logs, requestCounts, pool, nextBookId,
                   admitted>>

\* SELECT id FROM users WHERE username = ? AND id != ?
AccountCheckUsername(s) ==
    /\ At(s, "updateAccount", "username")
    /\ IF \E u \in DOMAIN users : /\ users[u].username = req[s].body.username
                                  /\ u # req[s].actor
       THEN Respond(s, 409, "USERNAME_EXISTS")
       ELSE AccountPrepare(s)
    /\ UNCHANGED <<users, books, reviews, nextReviewId, review_likes,
                   user_favorites, review_comments, nextCommentId, now,
                   minutes, system_logs, requestCounts, pool, nextBookId,
                   admitted>>

\* UPDATE users SET <username = ?,> <bio = ?,> updated_at = ... WHERE id = ?
AccountUpdate(s) ==
    /\ At(s, "updateAccount", "update")
    /\ LET u == req[s].actor
           b == req[s].body
       IN users' = [users EXCEPT
                      ![u].username = IF b.username = Undefined THEN @
                                      ELSE b.username,
                      ![u].bio = IF b.bio = Undefined THEN @ ELSE b.bio]
    /\ Respond(s, 200, "OK")
    /\ UNCHANGED <<books, reviews, nextReviewId, review_likes,
                   user_favorites, review_comments, nextCommentId, now,
                   minutes, system_logs, requestCounts, pool, nextBookId,
                   admitted>>

\* ------------------------------------------------------ the database pool
\* poolConfig.connectionLimit
connectionLimit == 10

\* What one caller did with its pooled connection: how often it took one and
\* gave it back, how its callback ended and which of commit and rollback
\* were called, with what result.
NoLease ==
    [acquired |-> 0, released |-> 0, callback |-> "none", commit |-> "none",
     rollback |-> "none"]

\* The pool before any request: every connection free.
FreshPool == [free |-> connectionLimit, lease |-> [s \in Slots |-> NoLease]]

\* pool.getConnection() resolved for the caller in slot s
AcquireConnection(p, s) ==
    [p EXCEPT !.free = @ - 1, !.lease[s] = [NoLease EXCEPT !.acquired = 1]]

\* a caller that keeps what it holds
KeepConnection(p, s) == p

\* connection.release()
ReleaseConnection(p, s) ==
    [p EXCEPT !.free = @ + 1, !.lease[s].released = @ + 1]

PoolFrame ==
    UNCHANGED <<users, books, reviews, nextReviewId, review_likes,
                user_favorites, review_comments, nextCommentId, now,
                minutes, system_logs, requestCounts, nextBookId, admitted>>

\* ------------------------------------------------- transaction(callback)
\* A caller invokes the helper.
TransactionCall(s) ==
    /\ req[s].pc = "idle"
    /\ req' = [req EXCEPT ![s] = [Idle EXCEPT !.op = "transaction",
                                              !.pc = "getConnection"]]
    /\ pool' = [pool EXCEPT !.lease[s] = NoLease]
    /\ PoolFrame

\* const connection = await pool.getConnection(), before the try block: a
\* rejection leaves the helper with nothing to release
TransactionGetConnection(s, ok) ==
    /\ At(s, "transaction", "getConnection")
    /\ IF ok
       THEN /\ pool.free > 0
            /\ pool' = AcquireConnection(pool, s)
            /\ Goto(s, "beginTransaction")
       ELSE /\ Respond(s, 500, "THROWN")
            /\ UNCHANGED pool
    /\ PoolFrame

\* await connection.beginTransaction(); a rejection is caught
TransactionBegin(s, ok) ==
    /\ At(s, "transaction", "beginTransaction")
    /\ Goto(s, IF ok THEN "callback" ELSE "rollback")
    /\ UNCHANGED pool
    /\ PoolFrame

\* const result = await callback(transactionQuery)
TransactionCallback(s, ok) ==
    /\ At(s, "transaction", "callback")
    /\ pool' = [pool EXCEPT !.lease[s].callback =
                              IF ok THEN "returned" ELSE "threw"]
    /\ Goto(s, IF ok THEN "commit" ELSE "rollback")
    /\ PoolFrame

\* await connection.commit(); return result; finally release. A rejected
\* commit is caught like any other error.
TransactionCommit(s, ok) ==
    /\ At(s, "transaction", "commit")
    /\ IF ok
       THEN /\ pool' = ReleaseConnection(
                           [pool EXCEPT !.lease[s].commit = "ok"], s)
            /\ Respond(s, 200, "RESULT")
       ELSE /\ pool' = [pool EXCEPT !.lease[s].commit = "failed"]
            /\ Goto(s, "rollback")
    /\ PoolFrame

\* catch: await connection.rollback(); throw error; finally release. A
\* rejected rollback leaves the catch block by its own error.
TransactionRollback(s, ok) ==
    /\ At(s, "transaction", "rollback")
    /\ pool' = ReleaseConnection(
                   [pool EXCEPT !.lease[s].rollback =
                                  IF ok THEN "ok" ELSE "failed"], s)
    /\ Respond(s, 500, "THROWN")
    /\ PoolFrame

\* ------------------------------------------------------ GET /api/profile
\* optionalAuth, then targetUserId = req.user ? req.user.id : null and the
\* test on it, all before a connection is asked for
MyProfileArrive(s, token) ==
    /\ req[s].pc = "idle"
    /\ LET user == optionalAuth(token)
           targetUserId == IF user # NoUser THEN Property(user, "id") ELSE Null
       IN req' = [req EXCEPT ![s] =
                    IF targetUserId = Null
                    THEN [Idle EXCEPT !.op = "getMyProfile", !.pc = "done",
                                      !.actor = user.userId, !.role = user.role,
                                      !.status = 400, !.code = "NO_USER_ID"]
                    ELSE [Idle EXCEPT !.op = "getMyProfile",
                                      !.pc = "getConnection",
                                      !.actor = user.userId, !.role = user.role,
                                      !.id = targetUserId]]
    /\ pool' = [pool EXCEPT !.lease[s] = NoLease]
    /\ PoolFrame

\* ------------------------------------------------------ PUT /api/profile
\* signature.length > 30
SignatureTooLong(signature) == signature = "s31"

\* every one of avatar, signature, stats, history present and boolean
PrivacyFormatOk(privacy_settings) == privacy_settings = "valid"

\* authenticateToken
UpdateProfileArrive(s, token, body) ==
    /\ Arrive(s, "putProfile", token, 0, body)
    /\ pool' = [pool EXCEPT !.lease[s] = NoLease]
    /\ PoolFrame

\* the two tests on the body, before a connection is asked for
UpdateProfileValidate(s) ==
    /\ At(s, "putProfile", "start")
    /\ LET b == req[s].body
       IN IF b.signature \notin {Undefined, ""} /\ SignatureTooLong(b.signature)
          THEN Respond(s, 400, "SIGNATURE_TOO_LONG")
          ELSE IF b.privacy_settings # Undefined
                  /\ ~PrivacyFormatOk(b.privacy_settings)
          THEN Respond(s, 400, "BAD_PRIVACY_SETTINGS")
          ELSE Goto(s, "getConnection")
    /\ UNCHANGED pool
    /\ PoolFrame

\* const connection = await mysql.getConnection(); a rejection goes to the
\* outer catch. With nothing to update the handler answers 400 from inside
\* the try block, and finally releases.
UpdateProfileGetConnection(s, ok) ==
    /\ At(s, "putProfile", "getConnection")
    /\ LET b == req[s].body
       IN IF ~ok
          THEN /\ Respond(s, 500, "PROFILE_ERROR")
               /\ UNCHANGED pool
          ELSE /\ pool.free > 0
               /\ IF b.signature = Undefined /\ b.privacy_settings = Undefined
                  THEN /\ pool' = ReleaseConnection(AcquireConnection(pool, s), s)
                       /\ Respond(s, 400, "NO_FIELDS")
                  ELSE /\ pool' = AcquireConnection(pool, s)
                       /\ Goto(s, "execute")
    /\ PoolFrame

\* await connection.execute(updateQuery, updateValues) with userId =
\* req.user.id as the last value: an undefined value makes execute throw;
\* then the 404, or the success answer; finally releases on each path.
UpdateProfileExecute(s, ok) ==
    /\ At(s, "putProfile", "execute")
    /\ LET b == req[s].body
           userId == Property([userId |-> req[s].actor, role |-> req[s].role],
                              "id")
       IN IF ~ok \/ userId = Null
          THEN /\ Respond(s, 500, "PROFILE_ERROR")
               /\ UNCHANGED users
          ELSE IF userId \notin DOMAIN users
          THEN /\ Respond(s, 404, "NOT_FOUND")
               /\ UNCHANGED users
          ELSE /\ users' =
                    [users EXCEPT
                       ![userId].signature =
                           IF b.signature = Undefined THEN @
                           ELSE IF b.signature = "" THEN JsNull
                           ELSE b.signature,
                       ![userId].privacy_settings =
                           IF b.privacy_settings = Undefined THEN @
                           ELSE [kind |-> "json", map |-> AllPublic]]
               /\ Respond(s, 200, "OK")
    /\ pool' = ReleaseConnection(pool, s)
    /\ UNCHANGED <<books, reviews, nextReviewId, review_likes,
                   user_favorites, review_comments, nextCommentId, now,
                   minutes, system_logs, requestCounts, nextBookId, admitted>>

MaxClock == 36

\* h hours pass
Tick(h) ==
    /\ now + h <= MaxClock
    /\ now' = now + h
    /\ UNCHANGED <<users, books, reviews, nextReviewId, review_likes,
                   user_favorites, review_comments, nextCommentId, minutes,
                   system_logs, requestCounts, pool, nextBookId, admitted,
                   req>>

\* ------------------------------------------------------- request inputs
CreateBodies ==
    {[NoBody EXCEPT !.book_id = b, !.title = "t0", !.content = "c0", !.rating = r] :
        b \in BookParams, r \in {2, 5, 6}}

UpdateBodies ==
    {[NoBody EXCEPT !.title = "t1", !.content = "c1"],
     [NoBody EXCEPT !.rating = 4],
     [NoBody EXCEPT !.rating = 6],
     NoBody}

Tokens == Users \cup {Anonymous}

\* the registered users who are not administrators
Members == {u \in Users : RoleOf(u) = "user"}

\* their tokens, and no token
MemberTokens == Members \cup {Anonymous}

NewContent == {[NoBody EXCEPT !.content = "c0"], NoBody}

ReviewFilters == {NoBody, [NoBody EXCEPT !.status = "hidden"]}

Moderations == {[NoBody EXCEPT !.status = st] : st \in {"approved", "rejected"}}

EditedContent == {[NoBody EXCEPT !.content = "c1"], NoBody}

SeedIds == 1..NumSeedReviews

\* the seeded reviews plus an id the store never holds
SeedParams == 1..(NumSeedReviews + 1)

\* -------------------------------------------------------- initial states
\* the store right after the schema script ran
EmptyStore ==
    /\ users = [u \in Users |-> UserRow(u)]
    /\ books = [b \in BookIds |-> BookRow]
    /\ reviews = <<>>
    /\ nextReviewId = 1
    /\ review_likes = EmptyBag
    /\ user_favorites = EmptyBag
    /\ review_comments = <<>>
    /\ nextCommentId = 1
    /\ now = 0
    /\ minutes = 0
    /\ system_logs = <<>>
    /\ requestCounts = <<>>
    /\ pool = FreshPool
    /\ nextBookId = Cardinality(BookIds) + 1
    /\ admitted = <<>>

Init ==
    /\ EmptyStore
    /\ req = [s \in Slots |-> Idle]

\* the tables after n reviews of book 1 were posted, the first by user 2, the
\* next by user 3, then by user 1 and so on
RECURSIVE Seeded(_)
Seeded(n) ==
    IF n = 0
    THEN [reviews |-> <<>>, books |-> [b \in BookIds |-> BookRow],
          users |-> [u \in Users |-> UserRow(u)]]
    ELSE InsertReview(Seeded(n - 1), n, (n % Cardinality(Users)) + 1, 1,
                      "t0", "c0", 5)

SeededInit ==
    /\ users = Seeded(NumSeedReviews).users
    /\ books = Seeded(NumSeedReviews).books
    /\ reviews = Seeded(NumSeedReviews).reviews
    /\ nextReviewId = NumSeedReviews + 1
    /\ review_likes = EmptyBag
    /\ user_favorites = EmptyBag
    /\ review_comments = <<>>
    /\ nextCommentId = 1
    /\ now = 0
    /\ minutes = 0
    /\ system_logs = <<>>
    /\ requestCounts = <<>>
    /\ pool = FreshPool
    /\ nextBookId = Cardinality(BookIds) + 1
    /\ admitted = <<>>
    /\ req = [s \in Slots |-> Idle]

\* -------------------------------------------------------- specifications
\* Requests are served one at a time: review creation, update and deletion.
ReviewNext ==
    \E s \in {"s1"} :
        \/ \E t \in Tokens, body \in CreateBodies : CreateArrive(s, t, body)
        \/ CreateFindBook(s)
        \/ CreateCheckExisting(s)
        \/ CreateInsert(s)
        \/ CreateReread(s)
        \/ \E t \in Tokens, r \in ReviewParams, body \in UpdateBodies :
              UpdateArrive(s, t, r, body)
        \/ UpdateFindReview(s)
        \/ UpdateWrite(s)
        \/ UpdateReread(s)
        \/ \E t \in Tokens, r \in ReviewParams : DeleteArrive(s, t, r)
        \/ DeleteFindReview(s)
        \/ DeleteHide(s)
        \/ Finish(s)

Spec == Init /\ [][ReviewNext]_vars

\* Requests are served one at a time: registered users create reviews and
\* delete them.
RecreateNext ==
    \E s \in {"s1"} :
        \/ \E t \in Users, body \in {b \in CreateBodies : b.rating # 2} :
              CreateArrive(s, t, body)
        \/ CreateFindBook(s)
        \/ CreateCheckExisting(s)
        \/ CreateInsert(s)
        \/ CreateReread(s)
        \/ \E t \in Users, r \in ReviewParams : DeleteArrive(s, t, r)
        \/ DeleteFindReview(s)
        \/ DeleteHide(s)
        \/ Finish(s)

RecreateSpec == Init /\ [][RecreateNext]_vars

\* Two requests in flight: review creation and deletion.
RaceNext ==
    \E s \in Slots :
        \/ \E t \in Tokens, body \in CreateBodies : CreateArrive(s, t, body)
        \/ CreateFindBook(s)
        \/ CreateCheckExisting(s)
        \/ CreateInsert(s)
        \/ CreateReread(s)
        \/ \E t \in Tokens, r \in ReviewParams : DeleteArrive(s, t, r)
        \/ DeleteFindReview(s)
        \/ DeleteHide(s)
        \/ Finish(s)

RaceSpec == Init /\ [][RaceNext]_vars

\* Two requests in flight over seeded reviews: like, unlike and deletion.
LikeNext ==
    \E s \in Slots :
        \/ \E t \in Tokens, r \in SeedParams : LikeArrive(s, t, r)
        \/ LikeFindReview(s)
        \/ LikeCheckExisting(s)
        \/ LikeInsert(s)
        \/ LikeReread(s)
        \/ \E t \in Tokens, r \in SeedParams : UnlikeArrive(s, t, r)
        \/ UnlikeCheckExisting(s)
        \/ UnlikeDelete(s)
        \/ UnlikeReread(s)
        \/ \E t \in Tokens, r \in SeedParams : DeleteArrive(s, t, r)
        \/ DeleteFindReview(s)
        \/ DeleteHide(s)
        \/ Finish(s)

LikeSpec == SeededInit /\ [][LikeNext]_vars

\* Two requests in flight over seeded reviews: registered users like and
\* favorite existing reviews.
DupNext ==
    \E s \in Slots :
        \/ \E t \in Members, r \in SeedIds : LikeArrive(s, t, r)
        \/ LikeFindReview(s)
        \/ LikeCheckExisting(s)
        \/ LikeInsert(s)
        \/ LikeReread(s)
        \/ \E t \in Members, r \in SeedIds : FavoriteArrive(s, t, r)
        \/ FavoriteFindReview(s)
        \/ FavoriteCheckExisting(s)
        \/ FavoriteInsert(s)
        \/ FavoriteReread(s)
        \/ Finish(s)

DupSpec == SeededInit /\ [][DupNext]_vars

\* Requests are served one at a time over seeded reviews, while time passes:
\* comments are posted, edited and deleted.
CommentNext ==
    \/ \E s \in {"s1"} :
        \/ \E t \in Tokens, r \in SeedParams, body \in NewContent :
              CommentArrive(s, t, r, body)
        \/ CommentFindReview(s)
        \/ CommentInsert(s)
        \/ CommentReread(s)
        \/ \E t \in Tokens, c \in CommentParams, body \in EditedContent :
              EditCommentArrive(s, t, c, body)
        \/ EditCommentFind(s)
        \/ EditCommentWrite(s)
        \/ EditCommentReread(s)
        \/ \E t \in Tokens, c \in CommentParams : DeleteCommentArrive(s, t, c)
        \/ DeleteCommentFind(s)
        \/ DeleteCommentCount(s)
        \/ DeleteCommentRow(s)
        \/ Finish(s)
    \/ Tick(EditWindowHours + 1)

CommentSpec == SeededInit /\ [][CommentNext]_vars

\* Requests are served one at a time while time passes in half days:
\* registered users post comments and edit them.
WindowNext ==
    \/ \E s \in {"s1"} :
        \/ \E t \in Members, r \in SeedIds, body \in NewContent :
              CommentArrive(s, t, r, body)
        \/ CommentFindReview(s)
        \/ CommentInsert(s)
        \/ CommentReread(s)
        \/ \E t \in Users, c \in CommentParams, body \in EditedContent :
              EditCommentArrive(s, t, c, body)
        \/ EditCommentFind(s)
        \/ EditCommentWrite(s)
        \/ EditCommentReread(s)
        \/ Finish(s)
    \/ Tick(EditWindowHours \div 2)

WindowSpec == SeededInit /\ [][WindowNext]_vars

\* Requests are served one at a time over seeded reviews: PUT and DELETE
\* /api/reviews/:id.
EditNext ==
    \E s \in {"s1"} :
        \/ \E t \in Tokens, r \in SeedParams, body \in UpdateBodies :
              UpdateArrive(s, t, r, body)
        \/ UpdateFindReview(s)
        \/ UpdateWrite(s)
        \/ UpdateReread(s)
        \/ \E t \in Tokens, r \in SeedParams : DeleteArrive(s, t, r)
        \/ DeleteFindReview(s)
        \/ DeleteHide(s)
        \/ Finish(s)

EditSpec == SeededInit /\ [][EditNext]_vars

\* Requests are served one at a time over seeded reviews: reviews are
\* deleted, comments posted and moderated, and anyone reads.
ReadNext ==
    \E s \in {"s1"} :
        \/ \E t \in Tokens, r \in SeedParams : DeleteArrive(s, t, r)
        \/ DeleteFindReview(s)
        \/ DeleteHide(s)
        \/ \E t \in Users, r \in SeedIds, body \in NewContent :
              CommentArrive(s, t, r, body)
        \/ CommentFindReview(s)
        \/ CommentInsert(s)
        \/ CommentReread(s)
        \/ \E t \in Tokens, c \in CommentParams, body \in Moderations :
              ModerateCommentArrive(s, t, c, body)
        \/ ModerateCommentFind(s)
        \/ ModerateCommentWrite(s)
        \/ \E t \in Tokens, body \in ReviewFilters : ListReviewsArrive(s, t, body)
        \/ ListReviewsQuery(s)
        \/ \E t \in Tokens, r \in SeedParams : GetReviewArrive(s, t, r)
        \/ GetReviewQuery(s)
        \/ \E t \in Tokens, c \in CommentParams : GetCommentArrive(s, t, c)
        \/ GetCommentQuery(s)
        \/ \E t \in Tokens, r \in SeedParams : ListCommentsArrive(s, t, r)
        \/ ListCommentsQuery(s)
        \/ Finish(s)

ReadSpec == SeededInit /\ [][ReadNext]_vars

\* Requests are served one at a time from the empty store: reviews are
\* created, liked, unliked and deleted, and an admin deletes books.
StatsNext ==
    \E s \in {"s1"} :
        \/ \E t \in Users, body \in CreateBodies : CreateArrive(s, t, body)
        \/ CreateFindBook(s)
        \/ CreateCheckExisting(s)
        \/ CreateInsert(s)
        \/ CreateReread(s)
        \/ \E t \in Users, r \in ReviewParams : LikeArrive(s, t, r)
        \/ LikeFindReview(s)
        \/ LikeCheckExisting(s)
        \/ LikeInsert(s)
        \/ LikeReread(s)
        \/ \E t \in Users, r \in ReviewParams : UnlikeArrive(s, t, r)
        \/ UnlikeCheckExisting(s)
        \/ UnlikeDelete(s)
        \/ UnlikeReread(s)
        \/ \E t \in Users, r \in ReviewParams : DeleteArrive(s, t, r)
        \/ DeleteFindReview(s)
        \/ DeleteHide(s)
        \/ \E t \in Tokens, b \in BookParams : BookDeleteArrive(s, t, b)
        \/ BookDeleteFind(s)
        \/ BookDeleteCount(s)
        \/ BookDeleteRow(s)
        \/ Finish(s)

StatsSpec == Init /\ [][StatsNext]_vars

\* Requests are served one at a time over seeded reviews: comments and
\* replies are posted by registered users, deleted and moderated,
\* MaxComments rows in all, and reviews are hidden.
ThreadNext ==
    \E s \in {"s1"} :
        \/ \E t \in MemberTokens, r \in SeedIds, body \in NewContent :
              CommentArrive(s, t, r, body)
        \/ CommentFindReview(s)
        \/ CommentInsert(s)
        \/ CommentReread(s)
        \/ \E t \in MemberTokens, c \in CommentParams, body \in NewContent :
              /\ nextCommentId <= MaxComments
              /\ ReplyArrive(s, t, c, body)
        \/ ReplyFindParent(s)
        \/ ReplyInsert(s)
        \/ ReplyReread(s)
        \/ \E t \in Tokens, c \in CommentParams : DeleteCommentArrive(s, t, c)
        \/ DeleteCommentFind(s)
        \/ DeleteCommentCount(s)
        \/ DeleteCommentRow(s)
        \/ \E t \in Users, c \in CommentParams, body \in Moderations :
              ModerateCommentArrive(s, t, c, body)
        \/ ModerateCommentFind(s)
        \/ ModerateCommentWrite(s)
        \/ \E t \in Users, r \in SeedIds : DeleteArrive(s, t, r)
        \/ DeleteFindReview(s)
        \/ DeleteHide(s)
        \/ Finish(s)

ThreadSpec == SeededInit /\ [][ThreadNext]_vars

\* Requests are served one at a time over seeded reviews: registered users
\* like, favorite and comment on reviews, and reviews are deleted.
HideNext ==
    \E s \in {"s1"} :
        \/ \E t \in Members, r \in SeedIds : LikeArrive(s, t, r)
        \/ LikeFindReview(s)
        \/ LikeCheckExisting(s)
        \/ LikeInsert(s)
        \/ LikeReread(s)
        \/ \E t \in Members, r \in SeedIds : FavoriteArrive(s, t, r)
        \/ FavoriteFindReview(s)
        \/ FavoriteCheckExisting(s)
        \/ FavoriteInsert(s)
        \/ FavoriteReread(s)
        \/ \E t \in Members, r \in SeedIds :
              CommentArrive(s, t, r, [NoBody EXCEPT !.content = "c0"])
        \/ CommentFindReview(s)
        \/ CommentInsert(s)
        \/ CommentReread(s)
        \/ \E t \in Tokens, r \in SeedParams : DeleteArrive(s, t, r)
        \/ DeleteFindReview(s)
        \/ DeleteHide(s)
        \/ Finish(s)

HideSpec == SeededInit /\ [][HideNext]_vars

\* Two requests in flight over seeded reviews: registered users post
\* comments and replies, and comments are deleted.
CascadeNext ==
    \E s \in Slots :
        \/ \E t \in Members, r \in SeedIds :
              CommentArrive(s, t, r, [NoBody EXCEPT !.content = "c0"])
        \/ CommentFindReview(s)
        \/ CommentInsert(s)
        \/ CommentReread(s)
        \/ \E t \in Members, c \in CommentParams :
              ReplyArrive(s, t, c, [NoBody EXCEPT !.content = "c0"])
        \/ ReplyFindParent(s)
        \/ ReplyInsert(s)
        \/ ReplyReread(s)
        \/ \E t \in Users, c \in CommentParams : DeleteCommentArrive(s, t, c)
        \/ DeleteCommentFind(s)
        \/ DeleteCommentCount(s)
        \/ DeleteCommentRow(s)
        \/ Finish(s)

CascadeSpec == SeededInit /\ [][CascadeNext]_vars

\* What PUT /api/profile is sent
ProfileBodies ==
    {[NoBody EXCEPT !.signature = g, !.privacy_settings = ps] :
        g \in {Undefined, "sig", "s31"},
        ps \in {Undefined, "valid", "invalid"}}

\* Two callers at a time use the pool: the transaction helper with a
\* callback that returns or throws, and the profile routes; each driver call
\* resolves or rejects.
PoolNext ==
    \E s \in Slots :
        \/ TransactionCall(s)
        \/ \E ok \in BOOLEAN : TransactionGetConnection(s, ok)
        \/ \E ok \in BOOLEAN : TransactionBegin(s, ok)
        \/ \E ok \in BOOLEAN : TransactionCallback(s, ok)
        \/ \E ok \in BOOLEAN : TransactionCommit(s, ok)
        \/ \E ok \in BOOLEAN : TransactionRollback(s, ok)
        \/ \E t \in Users \cup {Anonymous} : MyProfileArrive(s, t)
        \/ \E t \in Users \cup {Anonymous}, body \in ProfileBodies :
              UpdateProfileArrive(s, t, body)
        \/ UpdateProfileValidate(s)
        \/ \E ok \in BOOLEAN : UpdateProfileGetConnection(s, ok)
        \/ \E ok \in BOOLEAN : UpdateProfileExecute(s, ok)
        \/ Finish(s)

PoolSpec == Init /\ [][PoolNext]_vars

\* the bodies of POST /books and PUT /books/:id: the stored book, a new
\* one, a title alone and an empty body
BookBodies ==
    {[NoBody EXCEPT !.title = "b1", !.author = "a1"],
     [NoBody EXCEPT !.title = "b2", !.author = "a1"],
     [NoBody EXCEPT !.title = "b2"], NoBody}

BookIdParams == 1..(MaxBooks + 1)

\* Requests are served one at a time over seeded reviews: books are created,
\* updated and deleted, by either version of the books router.
BookNext ==
    \E s \in {"s1"} :
        \/ \E t \in Tokens, body \in BookBodies : BookCreateArrive(s, t, body)
        \/ BookCreateCheck(s)
        \/ BookCreateInsert(s)
        \/ BookCreateReread(s)
        \/ \E t \in Tokens, b \in BookIdParams, body \in BookBodies :
              BookUpdateArrive(s, t, b, body)
        \/ BookUpdateFind(s)
        \/ BookUpdateWrite(s)
        \/ BookUpdateReread(s)
        \/ \E t \in Tokens, b \in BookIdParams : BookDeleteArrive(s, t, b)
        \/ BookDeleteFind(s)
        \/ BookDeleteCount(s)
        \/ BookDeleteRow(s)
        \/ \E t \in Tokens, b \in BookIdParams,
                 op \in {"updateBook", "deleteBook"} : BookStub(s, op, t, b)
        \/ Finish(s)

BookSpec == SeededInit /\ [][BookNext]_vars

\* the bodies of PUT /comments/:id/status: the three statuses and one that
\* is none of them
StatusBodies ==
    {[NoBody EXCEPT !.status = st] :
        st \in {"approved", "pending", "rejected", "hidden"}}

\* Requests are served one at a time over seeded reviews: comments and
\* replies are posted and moderated.
ModerateNext ==
    \E s \in {"s1"} :
        \/ \E t \in Members, r \in SeedIds :
              CommentArrive(s, t, r, [NoBody EXCEPT !.content = "c0"])
        \/ CommentFindReview(s)
        \/ CommentInsert(s)
        \/ CommentReread(s)
        \/ \E t \in Members, c \in CommentParams :
              /\ nextCommentId <= MaxComments
              /\ ReplyArrive(s, t, c, [NoBody EXCEPT !.content = "c0"])
        \/ ReplyFindParent(s)
        \/ ReplyInsert(s)
        \/ ReplyReread(s)
        \/ \E t \in Tokens, c \in CommentParams, body \in StatusBodies :
              ModerateCommentArrive(s, t, c, body)
        \/ ModerateCommentFind(s)
        \/ ModerateCommentWrite(s)
        \/ Finish(s)

ModerateSpec == SeededInit /\ [][ModerateNext]_vars

\* Requests are served one at a time over seeded reviews: comments are
\* posted and replied to.
NestNext ==
    \E s \in {"s1"} :
        \/ \E t \in Tokens, r \in SeedParams, body \in NewContent :
              CommentArrive(s, t, r, body)
        \/ CommentFindReview(s)
        \/ CommentInsert(s)
        \/ CommentReread(s)
        \/ \E t \in Tokens, c \in ThreadParams, body \in NewContent :
              ReplyArrive(s, t, c, body)
        \/ ReplyFindParent(s)
        \/ ReplyInsert(s)
        \/ ReplyReread(s)
        \/ Finish(s)

NestSpec == SeededInit /\ [][NestNext]_vars

\* the addresses requests come from
Addresses == {"ip1", "ip2"}

\* Views of seeded reviews are recorded, one request at a time, while time
\* passes.
ViewNext ==
    \/ \E s \in {"s1"} :
        \/ \E t \in MemberTokens, ip \in Addresses, r \in SeedParams :
              ViewArrive(s, t, ip, r)
        \/ ViewFindReview(s)
        \/ ViewRecent(s)
        \/ ViewIncrement(s)
        \/ ViewLog(s)
        \/ ViewReread(s)
        \/ Finish(s)
    \/ TickMinutes(15)

ViewSpec == SeededInit /\ [][ViewNext]_vars

\* The same, with the database free to reject the insert of the view log.
ViewFaultNext ==
    \/ ViewNext
    \/ \E s \in {"s1"} : ViewLogFail(s)

ViewFaultSpec == SeededInit /\ [][ViewFaultNext]_vars

\* the store with whatever privacy map each user has stored
ProfileInit ==
    /\ \E stored \in [Users -> StoredSettings] :
          users = [u \in Users |->
                      [UserRow(u) EXCEPT !.privacy_settings = stored[u]]]
    /\ books = [b \in BookIds |-> BookRow]
    /\ reviews = <<>>
    /\ nextReviewId = 1
    /\ review_likes = EmptyBag
    /\ user_favorites = EmptyBag
    /\ review_comments = <<>>
    /\ nextCommentId = 1
    /\ now = 0
    /\ minutes = 0
    /\ system_logs = <<>>
    /\ requestCounts = <<>>
    /\ pool = FreshPool
    /\ nextBookId = Cardinality(BookIds) + 1
    /\ admitted = <<>>
    /\ req = [s \in Slots |-> Idle]

UserParams == Users \cup {Cardinality(Users) + 1}

\* the bodies of POST /auth/register: complete ones over two new emails, a
\* stored email, one new and one stored username, and one body per 400
RegisterBodies ==
    {[NoBody EXCEPT !.email = e, !.username = n, !.password = "passw0rd"] :
        e \in {"ann@x.io", "bob@x.io", "u2@x.io"}, n \in {"ann", "user2"}}
    \cup {[NoBody EXCEPT !.email = "ann@x.io", !.username = "ann"],
          [NoBody EXCEPT !.email = "ann.x.io", !.username = "ann",
                         !.password = "passw0rd"],
          [NoBody EXCEPT !.email = "ann@x.io", !.username = "a",
                         !.password = "passw0rd"],
          [NoBody EXCEPT !.email = "ann@x.io", !.username = "ann",
                         !.password = "short"]}

\* the bodies of PUT /auth/profile
AccountBodies ==
    {[NoBody EXCEPT !.username = "ann"], [NoBody EXCEPT !.username = "user3"],
     [NoBody EXCEPT !.username = "a"], [NoBody EXCEPT !.bio = "long"], NoBody}

\* Two requests in flight: registrations from one client and account updates
\* of the registered users.
AccountNext ==
    \E s \in Slots :
        \/ \E body \in RegisterBodies : RegisterArrive(s, "ip1", body)
        \/ RegisterCheckEmail(s)
        \/ RegisterCheckUsername(s)
        \/ RegisterInsert(s)
        \/ \E t \in Members, body \in AccountBodies :
              AccountArrive(s, t, body)
        \/ AccountValidate(s)
        \/ AccountCheckUsername(s)
        \/ AccountUpdate(s)
        \/ Finish(s)

AccountSpec == Init /\ [][AccountNext]_vars

MaxRateMinutes == 15

\* the bodies of POST /auth/login: none, a stored account with its password
\* and with a wrong one
LoginBodies ==
    {NoBody,
     [NoBody EXCEPT !.email = "u2@x.io", !.password = "passw0rd"],
     [NoBody EXCEPT !.email = "u2@x.io", !.password = "short"]}

\* Requests of two clients on the two rate-limited routes are served one at
\* a time, while time passes in steps of five minutes.
RateNext ==
    \/ \E s \in {"s1"} :
        \/ \E ip \in Addresses : RegisterArrive(s, ip, NoBody)
        \/ \E ip \in Addresses, body \in LoginBodies : LoginArrive(s, ip, body)
        \/ LoginFind(s)
        \/ LoginUpdate(s)
        \/ Finish(s)
    \/ Now + 5 <= MaxRateMinutes /\ TickMinutes(5)

RateSpec == Init /\ [][RateNext]_vars

\* Profiles are read, one request at a time.
ProfileNext ==
    \E s \in {"s1"} :
        \/ \E t \in Tokens, target \in UserParams : ProfileArrive(s, t, target)
        \/ ProfileQuery(s)
        \/ Finish(s)

ProfileSpec == ProfileInit /\ [][ProfileNext]_vars

\* ================================================================ claims
\* C1: after any sequence of like and unlike requests, concurrent ones
\* included, every review's likes_count equals the number of review_likes
\* rows whose review_id is that review.
C1_LikesCountMatchesRows ==
    \A r \in DOMAIN reviews : reviews[r].likes_count = CountRows(review_likes, r)

\* C1 witness: one request has unliked a review and another has liked it, and
\* the review holds a like.
C1_Witness ==
    \E s1, s2 \in Slots :
        /\ req[s1].op = "unlike" /\ req[s1].pc = "done" /\ req[s1].status = 200
        /\ req[s2].op = "like" /\ req[s2].pc = "done" /\ req[s2].status = 201
        /\ req[s1].id = req[s2].id
        /\ reviews[req[s1].id].likes_count = 1

\* C2: after any sequence of review creations and deletions, every book's
\* average_rating equals the average rating of its approved reviews, and 0
\* when it has none.
C2_AverageMatchesApproved ==
    \A b \in DOMAIN books :
        books[b].average_rating =
            IF AveragedRows(reviews, b) = {} THEN 0 ELSE AvgRating(reviews, b)

\* C3: there is at most one review row per (user, book) pair, concurrent
\* POST /reviews requests of one user for one book included.
C3_OneReviewPerUserBook ==
    \A i, j \in DOMAIN reviews :
        (reviews[i].user_id = reviews[j].user_id
            /\ reviews[i].book_id = reviews[j].book_id) => i = j

\* requests s1 and s2 are duplicates: same route, same user, same review
Duplicates(s1, s2) ==
    /\ s1 # s2
    /\ req[s1].op = req[s2].op
    /\ req[s1].op \in {"like", "favorite"}
    /\ req[s1].actor = req[s2].actor
    /\ req[s1].id = req[s2].id

\* the request's INSERT went through
Inserted(s) ==
    req[s].pc = "reread" \/ (req[s].pc = "done" /\ req[s].status = 201)

\* the users holding a like of review r
Likers(r) == {u \in Users : <<u, r>> \in BagToSet(review_likes)}

\* C4: duplicate like or favorite requests of one user for one review, sent
\* concurrently, store at most one row for the pair, and the likes_count of a
\* review counts each liking user once; of two duplicates at most one has its
\* INSERT accepted.
C4_DuplicatesStoreOneRow ==
    /\ \A u \in Users, r \in DOMAIN reviews :
          /\ CopiesIn(<<u, r>>, review_likes) <= 1
          /\ CopiesIn(<<u, r>>, user_favorites) <= 1
    /\ \A r \in DOMAIN reviews : reviews[r].likes_count = Cardinality(Likers(r))
    /\ \A s1, s2 \in Slots :
          Duplicates(s1, s2) => ~(Inserted(s1) /\ Inserted(s2))

\* C4 witness: two duplicate likes both passed the pre-check; the first INSERT
\* was accepted, the second was rejected by the unique key, and the review
\* counts one like.
C4_Witness ==
    \E s1, s2 \in Slots :
        /\ Duplicates(s1, s2)
        /\ req[s1].op = "like"
        /\ req[s1].pc = "done" /\ req[s1].status = 201
        /\ req[s2].pc = "done" /\ req[s2].status = 500
        /\ reviews[req[s1].id].likes_count = 1

\* the request found the approved review it names, and its sender wrote it
ByAuthor(s) == req[s].actor # Anonymous /\ req[s].loc.owner = req[s].actor

\* C5: no review_likes row joins a user to a review of their own: a like
\* request by the author of the (approved) review never reaches the INSERT
\* and is answered 400, whereas a favorite request by the author is not
\* refused (201, or 409/500 when the row is already there) and ends with the
\* favorite row stored.
C5_NoSelfLike ==
    /\ \A r \in DOMAIN reviews :
          CopiesIn(<<reviews[r].user_id, r>>, review_likes) = 0
    /\ \A s \in Slots :
          /\ (req[s].op = "like" /\ ByAuthor(s) /\ req[s].pc # "check")
                => (req[s].pc = "done" /\ req[s].status = 400)
          /\ (req[s].op = "favorite" /\ ByAuthor(s) /\ req[s].pc = "done")
                => /\ req[s].status \in {201, 409, 500}
                   /\ CopiesIn(<<req[s].actor, req[s].id>>, user_favorites) = 1

\* C5 witness: the author's like of their own review was answered 400 and the
\* author's favorite of the same review was answered 201.
C5_Witness ==
    \E s1, s2 \in Slots :
        /\ req[s1].op = "like" /\ ByAuthor(s1)
        /\ req[s1].pc = "done" /\ req[s1].code = "SELF_LIKE_FORBIDDEN"
        /\ req[s2].op = "favorite" /\ ByAuthor(s2)
        /\ req[s2].pc = "done" /\ req[s2].status = 201
        /\ req[s1].id = req[s2].id
        /\ review_likes = EmptyBag

\* the permission the claims state: the actor wrote the row or is an admin
OwnerOrAdmin(owner, actor) == owner = actor \/ users[actor].role = "admin"

\* request s takes the step that decides on the row it names
Decides(s, op, table) ==
    /\ At(s, op, "start")
    /\ req'[s].pc # "start"
    /\ req[s].id \in DOMAIN table

\* C6: PUT and DELETE /reviews/:id are authorized exactly when the actor is
\* the review's author or an admin: the request is answered 403 if and only
\* if the actor is neither, and a review changes only by a request of its
\* author or of an admin.
C6_ReviewMutationByAuthorOrAdmin ==
    [][/\ \A s \in Slots, op \in {"update", "delete"} :
            Decides(s, op, reviews) =>
                (req'[s].status = 403
                    <=> ~OwnerOrAdmin(reviews[req[s].id].user_id, req[s].actor))
       /\ \A r \in DOMAIN reviews :
            (r \in DOMAIN reviews' /\ reviews'[r] # reviews[r]) =>
                \E s \in Slots :
                    /\ req[s].op \in {"update", "delete"}
                    /\ req[s].id = r
                    /\ OwnerOrAdmin(reviews[r].user_id, req[s].actor)]_vars

\* C6 witness: a review was updated and deleted by its author or an admin,
\* after which a user who is neither was denied with 403.
C6_Witness ==
    \E s \in Slots :
        /\ req[s].op = "update" /\ req[s].pc = "done" /\ req[s].status = 403
        /\ req[s].id \in DOMAIN reviews
        /\ reviews[req[s].id].status = "hidden"
        /\ reviews[req[s].id].rating = 4
        /\ reviews[req[s].id].user_id # req[s].actor
        /\ req[s].role = "user"

\* C7 (as the code has it): PUT /comments/:id is authorized exactly when the
\* actor is the comment's owner, an admin who is not the owner being denied
\* with 403 like anyone else; DELETE /comments/:id is authorized exactly when
\* the actor is the owner or an admin.
C7_CommentEditByOwnerDeleteByOwnerOrAdmin ==
    [][\A s \in Slots :
        /\ Decides(s, "editComment", review_comments) =>
              (req'[s].code = "ACCESS_DENIED"
                  <=> review_comments[req[s].id].user_id # req[s].actor)
        /\ Decides(s, "deleteComment", review_comments) =>
              (req'[s].status = 403
                  <=> ~OwnerOrAdmin(review_comments[req[s].id].user_id,
                                    req[s].actor))]_vars

\* C7 as claimed: PUT and DELETE /comments/:id are both authorized exactly
\* when the actor is the comment's owner or an admin.
C7_CommentMutationByOwnerOrAdmin ==
    [][\A s \in Slots, op \in {"editComment", "deleteComment"} :
        Decides(s, op, review_comments) =>
            (req'[s].code = "ACCESS_DENIED"
                <=> ~OwnerOrAdmin(review_comments[req[s].id].user_id,
                                  req[s].actor))]_vars

\* C7 witness: an admin's PUT of another user's comment was denied with 403.
C7_Witness ==
    \E s \in Slots :
        /\ req[s].op = "editComment" /\ req[s].pc = "done"
        /\ req[s].status = 403 /\ req[s].code = "ACCESS_DENIED"
        /\ req[s].role = "admin"
        /\ req[s].id \in DOMAIN review_comments
        /\ review_comments[req[s].id].user_id # req[s].actor

ReadOps == {"listReviews", "getReview", "getComment", "listComments"}

\* the caller may read rows that are not approved
Privileged(owner, caller) ==
    caller # Anonymous /\ OwnerOrAdmin(owner, caller)

\* C8: no read endpoint returns a review or comment whose status is not
\* approved to a caller who is neither its owner nor an admin, whatever
\* query parameters are sent.
C8_NonApprovedOnlyToOwnerOrAdmin ==
    \A s \in Slots :
        (req[s].op \in ReadOps /\ req[s].pc = "done") =>
            /\ \A r \in req[s].data.reviews :
                  reviews[r].status = "approved"
                      \/ Privileged(reviews[r].user_id, req[s].actor)
            /\ \A c \in req[s].data.comments :
                  review_comments[c].status = "approved"
                      \/ Privileged(review_comments[c].user_id, req[s].actor)

\* a profile was returned to request s
ProfileReturned(s) ==
    req[s].op = "getProfile" /\ req[s].pc = "done" /\ req[s].status = 200

\* the map the owner has stored, all true when nothing is stored
Flags(u) == privacySettings(users[u].privacy_settings)

C10_OwnerSeesEverything ==
    \A s \in Slots :
        (ProfileReturned(s) /\ req[s].actor = req[s].id) =>
            LET p == req[s].data.profile
            IN /\ p.signature # JsNull
               /\ p.stats # JsNull
               /\ p.history # JsNull
               /\ p.privacy_settings # JsNull

\* the review_likes rows on reviews that user u wrote
LikesReceived(u) ==
    SumCopies(review_likes,
              {p \in BagToSet(review_likes) :
                  p[2] \in DOMAIN reviews /\ reviews[p[2]].user_id = u})

\* C11: after any sequence of like, unlike, review creation, review deletion
\* and book deletion, every user's total_likes_received equals the number
\* of review_likes rows on reviews that this user authored.
C11_LikesReceivedMatchesRows ==
    \A u \in DOMAIN users : users[u].total_likes_received = LikesReceived(u)

\* C12: after any sequence of review creations, review deletions and book
\* deletions, total_reviews of every book equals the number of existing
\* review rows of that book and total_reviews of every user equals the
\* number of existing review rows written by that user.
C12_TotalReviewsMatchRows ==
    /\ \A b \in DOMAIN books :
          books[b].total_reviews = Cardinality(ReviewsOfBook(reviews, b))
    /\ \A u \in DOMAIN users :
          users[u].total_reviews =
              Cardinality({i \in DOMAIN reviews : reviews[i].user_id = u})

\* the review_comments rows of review r
CommentsOf(r) == {c \in DOMAIN review_comments : review_comments[c].review_id = r}

C14_AverageFollowsRatingUpdate ==
    \A s \in Slots :
        (/\ req[s].op = "update" /\ req[s].pc = "done" /\ req[s].status = 200
         /\ req[s].body.rating # Null
         /\ reviews[req[s].id].status = "approved") =>
            LET b == reviews[req[s].id].book_id
            IN books[b].average_rating = AvgRating(reviews, b)

\* C15: the comment tree has at most two levels: every comment with a
\* non-null parent_id points to a comment whose own parent_id is null.
C15_TwoLevelTree ==
    \A c \in DOMAIN review_comments :
        review_comments[c].parent_id # Null =>
            /\ review_comments[c].parent_id \in DOMAIN review_comments
            /\ review_comments[review_comments[c].parent_id].parent_id = Null

\* the replies stored in table cm
StoredReplies(cm) == {c \in DOMAIN cm : cm[c].parent_id # Null}

\* C16: a reply is created only when its parent comment exists with status
\* approved and the parent's review has status approved; every stored reply
\* has parent_id equal to the requested parent and review_id equal to its
\* parent's review_id.
C16_ReplyOnlyToApprovedParent ==
    [][/\ \A c \in StoredReplies(review_comments') \ DOMAIN review_comments :
            \E s \in Slots :
                LET p == req[s].id
                IN /\ At(s, "reply", "insert")
                   /\ p \in DOMAIN review_comments
                   /\ review_comments[p].status = "approved"
                   /\ review_comments[p].review_id \in DOMAIN reviews
                   /\ reviews[review_comments[p].review_id].status = "approved"
                   /\ review_comments'[c].parent_id = p
       /\ \A c \in StoredReplies(review_comments') :
            LET p == review_comments'[c].parent_id
            IN /\ p \in DOMAIN review_comments'
               /\ review_comments'[c].review_id = review_comments'[p].review_id
      ]_vars

\* C16 witness: a reply to an approved comment of an approved review was
\* answered 201 and is stored under the requested parent.
C16_Witness ==
    \E s \in Slots, c \in StoredReplies(review_comments) :
        /\ req[s].op = "reply" /\ req[s].pc = "done" /\ req[s].status = 201
        /\ review_comments[c].parent_id = req[s].id
        /\ review_comments[req[s].id].status = "approved"
        /\ review_comments[c].review_id = review_comments[req[s].id].review_id

\* the replies to comment c
RepliesTo(cm, c) == {i \in DOMAIN cm : cm[i].parent_id = c}

\* C17 (as the code has it): DELETE /comments/:id on a comment that has at
\* least one reply, sent by its owner or an admin, is answered 409 with the
\* number of replies; whoever sends it, the comment and all of its replies
\* still exist afterward.
C17_DeleteWithRepliesRefused ==
    [][/\ \A s \in Slots :
            (/\ req[s].op = "deleteComment"
             /\ req[s].pc \in {"start", "count", "delete"}
             /\ req'[s] # req[s]
             /\ req[s].id \in DOMAIN review_comments
             /\ RepliesTo(review_comments, req[s].id) # {}
             /\ OwnerOrAdmin(review_comments[req[s].id].user_id, req[s].actor)) =>
                /\ req[s].pc # "delete"
                /\ req[s].pc = "start" => req'[s].pc = "count"
                /\ req[s].pc = "count" =>
                      /\ req'[s].pc = "done" /\ req'[s].status = 409
                      /\ req'[s].data.replies_count =
                            Cardinality(RepliesTo(review_comments, req[s].id))
       /\ \A s \in Slots :
            (/\ req[s].op = "deleteComment"
             /\ req'[s] # req[s]
             /\ req[s].id \in DOMAIN review_comments
             /\ RepliesTo(review_comments, req[s].id) # {}) =>
                review_comments' = review_comments
      ]_vars

\* C17 as claimed: every DELETE /comments/:id on a comment that has at least
\* one reply is answered 409 with the number of replies.
C17_DeleteWithRepliesAnswered409 ==
    [][\A s \in Slots :
        (/\ req[s].op = "deleteComment"
         /\ req[s].pc \in {"start", "count"}
         /\ req'[s] # req[s]
         /\ req[s].id \in DOMAIN review_comments
         /\ RepliesTo(review_comments, req[s].id) # {}) =>
            /\ req[s].pc = "start" => req'[s].pc = "count"
            /\ req[s].pc = "count" =>
                  /\ req'[s].status = 409
                  /\ req'[s].data.replies_count =
                        Cardinality(RepliesTo(review_comments, req[s].id))
      ]_vars

\* C17 witness: the owner's DELETE of a comment with one reply was answered
\* 409 with replies_count 1, and both rows are still stored.
C17_Witness ==
    \E s \in Slots :
        /\ req[s].op = "deleteComment" /\ req[s].pc = "done"
        /\ req[s].status = 409 /\ req[s].data.replies_count = 1
        /\ req[s].role = "user"
        /\ req[s].id \in DOMAIN review_comments
        /\ RepliesTo(review_comments, req[s].id) # {}

\* the key of a view: the user id of an authenticated sender, else the
\* address the request came from
ViewKey(sender, ip) ==
    IF sender # Anonymous THEN <<"user", sender>> ELSE <<"ip", ip>>

\* the view events of review r with key k logged within the window
ViewsWithin(r, k) ==
    {i \in DOMAIN system_logs :
        /\ system_logs[i].target_id = r
        /\ ViewKey(system_logs[i].sender, system_logs[i].ip_address) = k
        /\ system_logs[i].created_at > Now - ViewWindowMinutes}

\* C18: for sequential recordView requests, a request increments
\* reviews.views and logs a view event exactly when no view event for the
\* same review and the same key was logged within the preceding 30 minutes,
\* the key being the user id of an authenticated caller and the source
\* address of an anonymous one; otherwise views is left unchanged.
C18_ViewCountedOncePerKeyAndWindow ==
    [][\A s \in Slots :
        /\ (At(s, "view", "recent") /\ req'[s] # req[s]) =>
              (req'[s].loc.shouldCount
                  <=> ViewsWithin(req[s].id, ViewKey(req[s].actor, req[s].ip)) = {})
        /\ (req[s].op = "view" /\ req'[s] # req[s]) =>
              /\ reviews' # reviews =>
                    /\ req[s].loc.shouldCount
                    /\ reviews'[req[s].id].views = reviews[req[s].id].views + 1
              /\ system_logs' # system_logs => req[s].loc.shouldCount
              /\ (req'[s].pc = "done" /\ req'[s].status = 200) =>
                    /\ req'[s].data.counted = req[s].loc.shouldCount
                    /\ req'[s].data.views = reviews[req[s].id].views
      ]_vars

\* C19: in recordView the views counter is never raised without a matching
\* view-log row: once the request is over, also when the insert of the log
\* row failed, views of every review equals the number of its view events.
C19_ViewIncrementAtomic ==
    (\A s \in Slots : req[s].pc \in {"idle", "done"}) =>
        \A r \in DOMAIN reviews :
            reviews[r].views =
                Cardinality({i \in DOMAIN system_logs :
                                system_logs[i].target_id = r})

\* the join table a like or favorite request writes to
TableOf(op) == IF op = "like" THEN review_likes ELSE user_favorites

\* C20: every like or favorite request that is rejected because the
\* (user, review) row already exists is answered 409, whether the duplicate
\* is detected by the route's pre-check or by the unique key at insert time.
C20_DuplicateAnswered409 ==
    [][\A s \in Slots :
        (/\ req[s].op \in {"like", "favorite"}
         /\ req[s].pc \in {"check", "insert"}
         /\ req'[s] # req[s]
         /\ CopiesIn(<<req[s].actor, req[s].id>>, TableOf(req[s].op)) > 0) =>
            (req'[s].pc = "done" /\ req'[s].status = 409)
      ]_vars

\* C21: at every moment, concurrent registrations and account updates
\* included, no two users rows share an email and no two share a username.
C21_UniqueEmailAndUsername ==
    \A u, v \in DOMAIN users :
        u # v => /\ users[u].email # users[v].email
                 /\ users[u].username # users[v].username

\* C22: an unlike request whose existingLikes query finds no row of its
\* (user, review) pair is answered 404 by that step, and the step leaves
\* review_likes, every likes_count and every total_likes_received as they were.
C22_UnlikeWithoutRowIs404 ==
    [][\A s \in Slots :
          /\ At(s, "unlike", "start")
          /\ req'[s] # req[s]
          /\ CopiesIn(<<req[s].actor, req[s].id>>, review_likes) = 0
          => /\ req'[s].pc = "done"
             /\ req'[s].status = 404
             /\ review_likes' = review_likes
             /\ \A r \in DOMAIN reviews :
                   /\ r \in DOMAIN reviews'
                   /\ reviews'[r].likes_count = reviews[r].likes_count
             /\ \A u \in DOMAIN users :
                   users'[u].total_likes_received = users[u].total_likes_received]_vars

\* an unlike was answered 404 on a review that another user has liked
C22_Witness ==
    \E s \in Slots :
        /\ req[s].op = "unlike" /\ req[s].pc = "done" /\ req[s].status = 404
        /\ req[s].id \in DOMAIN reviews
        /\ reviews[req[s].id].likes_count > 0
        /\ CopiesIn(<<req[s].actor, req[s].id>>, review_likes) = 0

\* the hidden reviews of book b written by user u
HiddenReviews(u, b) ==
    {i \in DOMAIN reviews : /\ reviews[i].user_id = u /\ reviews[i].book_id = b
                            /\ reviews[i].status = "hidden"}

\* C23: while a hidden review of the same user for the same book is stored,
\* every step of a well-formed POST /reviews leaves table reviews as it was
\* and the request ends with 409.
C23_HiddenReviewStillBlocksCreate ==
    [][\A s \in Slots :
          /\ req[s].op = "create" /\ req[s].pc \in {"start", "check"}
          /\ req'[s] # req[s]
          /\ HiddenReviews(req[s].actor, req[s].body.book_id) # {}
          => /\ reviews' = reviews
             /\ nextReviewId' = nextReviewId
             /\ req'[s].pc \in {"check", "done"}
             /\ req'[s].pc = "done" => req'[s].status = 409]_vars

\* a POST /reviews was answered 409 and the only stored review of its sender
\* for the book is hidden
C23_Witness ==
    \E s \in Slots :
        /\ req[s].op = "create" /\ req[s].pc = "done" /\ req[s].status = 409
        /\ HiddenReviews(req[s].actor, req[s].body.book_id) # {}
        /\ ExistingReviews(req[s].actor, req[s].body.book_id)
             = HiddenReviews(req[s].actor, req[s].body.book_id)

\* C24: when the author's edit request reads the comment, it goes on to the
\* UPDATE if at most 24 hours have passed since created_at and is answered
\* 403 with the table untouched otherwise; the UPDATE stores the new content
\* and the request ends with 200.
C24_EditWithinWindowOnly ==
    [][\A s \in Slots :
          LET c == req[s].id
          IN /\ req[s].op = "editComment" /\ req'[s] # req[s]
             /\ c \in DOMAIN review_comments
             /\ review_comments[c].user_id = req[s].actor
             => /\ req[s].pc = "start" =>
                   IF now - review_comments[c].created_at <= 24
                   THEN req'[s].pc = "update"
                        /\ review_comments' = review_comments
                   ELSE /\ req'[s].pc = "done" /\ req'[s].status = 403
                        /\ review_comments' = review_comments
                /\ req[s].pc = "update" =>
                   /\ review_comments'[c].content = req[s].body.content
                   /\ req'[s].pc = "reread"
                /\ req[s].pc = "reread" =>
                   req'[s].pc = "done" /\ req'[s].status = 200]_vars

\* an edit sent exactly 24 hours after the comment was created has succeeded
C24_Witness ==
    \E s \in Slots :
        /\ req[s].op = "editComment" /\ req[s].pc = "done" /\ req[s].status = 200
        /\ req[s].id \in DOMAIN review_comments
        /\ review_comments[req[s].id].content = req[s].body.content
        /\ now - review_comments[req[s].id].created_at = 24

\* C25: a step that changes the status of a stored comment belongs to a
\* moderation request of an administrator for that comment, sets one of
\* approved, pending, rejected, and changes the status of no other comment,
\* its replies included.
C25_ModerationByAdminOnlyNoCascade ==
    [][\A c \in DOMAIN review_comments :
          /\ c \in DOMAIN review_comments'
          /\ review_comments'[c].status # review_comments[c].status
          => /\ \E s \in Slots :
                   /\ req[s].op = "moderateComment" /\ req[s].id = c
                   /\ req[s].actor \in DOMAIN users
                   /\ users[req[s].actor].role = "admin"
                   /\ review_comments'[c].status = req[s].body.status
             /\ review_comments'[c].status \in {"approved", "pending", "rejected"}
             /\ DOMAIN review_comments' = DOMAIN review_comments
             /\ \A d \in DOMAIN review_comments \ {c} :
                   review_comments'[d].status = review_comments[d].status]_vars

\* a comment was rejected by a finished moderation request while its reply
\* is still approved
C25_Witness ==
    \E s \in Slots, d \in DOMAIN review_comments :
        /\ req[s].op = "moderateComment" /\ req[s].pc = "done"
        /\ req[s].status = 200
        /\ req[s].id \in DOMAIN review_comments
        /\ review_comments[req[s].id].status = "rejected"
        /\ review_comments[d].parent_id = req[s].id
        /\ review_comments[d].status = "approved"

\* C26: no step of a DELETE /reviews/:id request removes a reviews row or
\* touches review_likes, user_favorites or review_comments; the only change
\* it makes is the status of the named review, set to hidden for its author
\* or an administrator, and a request answered 200 leaves the review hidden.
C26_ReviewDeleteIsSoft ==
    [][\A s \in Slots :
          req[s].op = "delete" /\ req'[s] # req[s]
          => /\ DOMAIN reviews' = DOMAIN reviews
             /\ review_likes' = review_likes
             /\ user_favorites' = user_favorites
             /\ review_comments' = review_comments
             /\ \A r \in DOMAIN reviews :
                   \/ reviews'[r] = reviews[r]
                   \/ /\ r = req[s].id
                      /\ OwnerOrAdmin(reviews[r].user_id, req[s].actor)
                      /\ reviews'[r] = [reviews[r] EXCEPT !.status = "hidden"]
             /\ req'[s].pc = "done" /\ req'[s].status = 200
                => /\ req[s].id \in DOMAIN reviews'
                   /\ reviews'[req[s].id].status = "hidden"]_vars

\* a review with a like, a favorite and a comment was deleted and is hidden
C26_Witness ==
    \E s \in Slots :
        /\ req[s].op = "delete" /\ req[s].pc = "done" /\ req[s].status = 200
        /\ req[s].id \in DOMAIN reviews
        /\ reviews[req[s].id].status = "hidden"
        /\ \E u \in Users : CopiesIn(<<u, req[s].id>>, review_likes) > 0
        /\ \E u \in Users : CopiesIn(<<u, req[s].id>>, user_favorites) > 0
        /\ \E c \in DOMAIN review_comments :
              review_comments[c].review_id = req[s].id

\* C27: a create or update request of an authenticated user is never refused
\* with 401 or 403, whatever the user's role; and a step in which a book or a
\* review row disappears is a step of a delete request sent by an
\* administrator for that book (so the requests of other callers remove
\* nothing).
C27_BookDeleteAdminOnly ==
    [][/\ \A s \in Slots :
             /\ req'[s].op \in {"createBook", "updateBook"}
             /\ req'[s].pc = "done" /\ req'[s].actor # Anonymous
             => req'[s].status \notin {401, 403}
       /\ DOMAIN books' # DOMAIN books \/ DOMAIN reviews' # DOMAIN reviews
          => \/ /\ DOMAIN books \subseteq DOMAIN books'
                /\ DOMAIN reviews \subseteq DOMAIN reviews'
             \/ \E s \in Slots :
                   /\ req[s].op = "deleteBook"
                   /\ req[s].actor \in DOMAIN users
                   /\ users[req[s].actor].role = "admin"
                   /\ DOMAIN books \ DOMAIN books' = {req[s].id}
                   /\ DOMAIN reviews \ DOMAIN reviews'
                        = ReviewsOfBook(reviews, req[s].id)]_vars

\* a registered user who is no administrator was refused the deletion of a
\* book that has reviews, next to a book a request created
C27_Witness ==
    \E s \in Slots :
        /\ req[s].op = "deleteBook" /\ req[s].pc = "done" /\ req[s].status = 403
        /\ req[s].actor \in DOMAIN users
        /\ users[req[s].actor].role = "user"
        /\ req[s].id \in DOMAIN books
        /\ ReviewsOfBook(reviews, req[s].id) # {}
        /\ \E b \in DOMAIN books : b > Cardinality(BookIds)

\* the requests of client ip that were admitted in the window ending at t
AdmittedWithin(ip, t) ==
    IF ip \notin DOMAIN admitted THEN {}
    ELSE {i \in DOMAIN admitted[ip] :
             admitted[ip][i] > t - 15 /\ admitted[ip][i] <= t}

\* C28: for every client, at most 5 requests are admitted in any window of 15
\* minutes; a request on a rate-limited route is answered 429 exactly when 5
\* requests of its client were admitted within the last 15 minutes, and a
\* rejected request is not recorded.
C28_RateLimitWindow ==
    /\ [](\A ip \in DOMAIN admitted : \A i \in DOMAIN admitted[ip] :
             Cardinality(AdmittedWithin(ip, admitted[ip][i])) <= 5)
    /\ [][\A s \in Slots :
             req[s].pc = "idle" /\ req'[s].op \in {"register", "login"}
             => LET ip == req'[s].ip
                IN IF Cardinality(AdmittedWithin(ip, Now)) >= 5
                   THEN /\ req'[s].status = 429
                        /\ admitted' = admitted
                        /\ \A a \in DOMAIN requestCounts' :
                              Len(requestCounts'[a]) <= 5
                   ELSE /\ req'[s].status # 429
                        /\ admitted' = Admit(admitted, ip, Now)]_vars

\* a client with five admitted requests at minute 0 is admitted a sixth time
\* at minute 15, when those have left the window
C28_Witness ==
    \E s \in Slots :
        /\ req[s].op \in {"register", "login"} /\ req[s].status # 429
        /\ req[s].pc = "done"
        /\ Now = 15
        /\ req[s].ip \in DOMAIN admitted
        /\ Len(admitted[req[s].ip]) = 6
        /\ admitted[req[s].ip][5] = 0
        /\ admitted[req[s].ip][6] = 15

\* C29: whatever the interleaving of a comment's deletion with a reply to
\* it, a row that a reply request answered 201 has created is removed only by
\* a delete request that names that row, never along with its parent.
C29_AnsweredReplyNotCascaded ==
    [][\A s \in Slots :
          /\ req[s].op = "reply" /\ req[s].pc = "done" /\ req[s].status = 201
          /\ req[s].loc.insertId \in DOMAIN review_comments
          /\ req[s].loc.insertId \notin DOMAIN review_comments'
          => \E d \in Slots : /\ req[d].op = "deleteComment"
                              /\ req[d].id = req[s].loc.insertId]_vars

\* the callers that hold a pooled connection
Holders == {s \in Slots : pool.lease[s].acquired > pool.lease[s].released}

\* C30: on every path through the transaction helper and the profile routes,
\* an error thrown, an early 4xx answer and a failed rollback included, the
\* connection that was acquired is released exactly once, so the free
\* connections are always the pool's ten less those in use and are ten again
\* when no request is running; the helper calls commit exactly when its
\* callback returned, and calls rollback when it did not.
C30_ConnectionReleasedExactlyOnce ==
    /\ pool.free + Cardinality(Holders) = connectionLimit
    /\ \A s \in Slots :
          LET l == pool.lease[s]
          IN /\ l.acquired <= 1
             /\ l.released <= l.acquired
             /\ req[s].pc \in {"idle", "done"} => l.released = l.acquired
             /\ req[s].op = "transaction" /\ req[s].pc = "done"
                => /\ l.commit # "none" <=> l.callback = "returned"
                   /\ l.acquired = 1 /\ l.callback # "returned"
                      => l.rollback # "none"
                   /\ l.commit = "ok" => l.rollback = "none"

\* a transaction whose callback threw and whose rollback failed has given its
\* connection back, while the other caller answered 400 from inside the try
\* block of PUT /api/profile
C30_Witness ==
    \E s, o \in Slots :
        /\ req[s].op = "transaction" /\ req[s].pc = "done"
        /\ pool.lease[s].callback = "threw"
        /\ pool.lease[s].rollback = "failed"
        /\ pool.lease[s].released = 1
        /\ req[o].op = "putProfile" /\ req[o].code = "NO_FIELDS"
        /\ pool.lease[o].released = 1
        /\ pool.free = connectionLimit

====
